---- MODULE Spec2Model ----
(***************************************************************************)
(* Model of the package-transfer pipeline of gh-migrate-packages:          *)
(*   - the transfer engine  common.ProcessPackages  (pkg/export/export.go  *)
(*     lines 383-482) driving the pull callback  pull.Download  and the    *)
(*     sync callback  sync.Upload;                                         *)
(*   - the single-file provider operations  BaseProvider.downloadPackage   *)
(*     and  BaseProvider.uploadPackage  over a local file system;          *)
(*   - the Report counters.                                                *)
(***************************************************************************)
EXTENDS Integers, Sequences, FiniteSets, TLC

\* ------------------------------------------------------------------------
\* Bounds of the model
\* ------------------------------------------------------------------------
MaxRows == 4
MaxFiles == 6
MaxRequests == 2
MaxRenames == 3
MaxFragments == 3

\* ------------------------------------------------------------------------
\* ResultState (providers: const Success ResultState = iota; Skipped; Failed)
\* ------------------------------------------------------------------------
Success == 0
Skipped == 1
Failed == 2

ResultState == {Success, Skipped, Failed}

\* ------------------------------------------------------------------------
\* Catalog rows: <<organization, repository, package_type, package_name,
\*                 package_version, package_filename>>
\* ------------------------------------------------------------------------
RowUniverse ==
    { <<"acme", "repo1", "npm", "p", "1.0.0", "p-1.0.0.tgz">>,
      <<"acme", "repo2", "maven", "q", "1.0.0", "q-1.0.0.jar">>,
      <<"acme", "repo2", "maven", "q", "1.1.0", "q-1.1.0.jar">>,
      <<"acme", "repo2", "maven", "q", "2.0.0", "q-2.0.0.jar">>,
      <<"acme", "repo2", "maven", "r", "1.0.0", "r-1.0.0.jar">>,
      <<"acme", "repo3", "container", "img", "sha256:1", "img:latest">> }

RECURSIVE SeqsUpTo(_, _)
SeqsUpTo(S, n) ==
    IF n = 0 THEN { <<>> }
    ELSE LET shorter == SeqsUpTo(S, n - 1)
         IN  shorter \cup { Append(s, x) : s \in { t \in shorter : Len(t) = n - 1 }, x \in S }

Catalogs == { c \in SeqsUpTo(RowUniverse, MaxRows) : Len(c) >= 1 }

\* providerLookup: the package types NewProvider knows
providerLookup == {"container", "maven", "npm", "rubygems", "nuget"}

\* values of the PACKAGE_TYPE setting read by ProcessPackages
DesiredTypes == {"", "maven"}

\* ------------------------------------------------------------------------
\* utils.GetListOfUniqueEntries / utils.GetFlatListOfColumn
\* ------------------------------------------------------------------------
Range(s) == { s[k] : k \in 1..Len(s) }

Reverse(s) == [ k \in 1..Len(s) |-> s[Len(s) + 1 - k] ]

\* the subset of columns of one record (columns are 0-based in the code)
Subset(record, columns) == [ k \in 1..Len(columns) |-> record[columns[k] + 1] ]

RECURSIVE UniqueEntriesFrom(_, _, _, _)
UniqueEntriesFrom(data, columns, k, result) ==
    IF k > Len(data) THEN result
    ELSE LET subset == Subset(data[k], columns)
         IN  IF subset \in Range(result)
             THEN UniqueEntriesFrom(data, columns, k + 1, result)
             ELSE UniqueEntriesFrom(data, columns, k + 1, Append(result, subset))

\* (seen is keyed by strings.Join(subset, ":"), which tells two subsets apart
\* as long as no value holds a ':')
GetListOfUniqueEntries(data, columns) == UniqueEntriesFrom(data, columns, 1, <<>>)

\* filters is a sequence of values for the columns 0..Len(filters)-1
Matches(record, filters) == \A c \in 1..Len(filters) : record[c] = filters[c]

RECURSIVE FlatListFrom(_, _, _, _, _)
FlatListFrom(data, filters, targetCol, k, result) ==
    IF k > Len(data) THEN result
    ELSE IF Matches(data[k], filters) /\ data[k][targetCol + 1] \notin Range(result)
         THEN FlatListFrom(data, filters, targetCol, k + 1,
                           Append(result, data[k][targetCol + 1]))
         ELSE FlatListFrom(data, filters, targetCol, k + 1, result)

GetFlatListOfColumn(data, filters, targetCol) ==
    FlatListFrom(data, filters, targetCol, 1, <<>>)

\* ------------------------------------------------------------------------
\* utils.DownloadFile and the providers' download closures
\* ------------------------------------------------------------------------
\* what the transport and the local disk can answer to one transfer
NetOutcomes == {"ok", "transport_error", "status_error", "create_error", "copy_error"}

\* variant of DownloadFile that sends the request again after a transport error
DownloadFileRetrying(net) ==
    [ err      |-> net # "ok",
      requests |-> IF net = "transport_error" THEN 2 ELSE 1,
      created  |-> net \in {"ok", "copy_error"} ]

\* DownloadFile: one request is sent; the output file is created only after
\* a 200 answer, and stays on disk when copying the body fails
DownloadFile(net) ==
    [ err      |-> net # "ok",
      requests |-> 1,
      created  |-> net \in {"ok", "copy_error"} ]

\* the download closure every provider hands to downloadPackage
download(net) ==
    LET d == DownloadFile(net)
    IN  [ state    |-> IF d.err THEN Failed ELSE Success,
          err      |-> d.err,
          requests |-> d.requests,
          created  |-> d.created ]

\* variant of downloadPackage without the FileExists early return
downloadPackageAlways(exists, mkdirOk, net) ==
    IF ~mkdirOk
    THEN [ state |-> Failed, err |-> TRUE, steps |-> <<"FileExists", "MkdirAll">>,
           requests |-> 0, created |-> FALSE, mkdir |-> FALSE ]
    ELSE LET r == download(net)
         IN  [ state |-> IF r.err THEN Failed ELSE r.state,
               err |-> r.err,
               steps |-> <<"FileExists", "MkdirAll", "getUrl", "download">>,
               requests |-> r.requests, created |-> r.created, mkdir |-> TRUE ]

downloadPackage(exists, mkdirOk, net) ==
    IF exists
    THEN [ state |-> Skipped, err |-> FALSE, steps |-> <<"FileExists">>,
           requests |-> 0, created |-> FALSE, mkdir |-> FALSE ]
    ELSE IF ~mkdirOk
    THEN [ state |-> Failed, err |-> TRUE, steps |-> <<"FileExists", "MkdirAll">>,
           requests |-> 0, created |-> FALSE, mkdir |-> FALSE ]
    ELSE LET r == download(net)
         IN  [ state |-> IF r.err THEN Failed ELSE r.state,
               err |-> r.err,
               steps |-> <<"FileExists", "MkdirAll", "getUrl", "download">>,
               requests |-> r.requests, created |-> r.created, mkdir |-> TRUE ]

\* ------------------------------------------------------------------------
\* the providers' upload closures and BaseProvider.uploadPackage
\* ------------------------------------------------------------------------
\* http.StatusConflict
StatusConflict == 409

\* what one upload meets: the step that fails (0: none), the status the
\* registry answers a Maven PUT with, whether a gemspec is found
UploadInputs(ptype) ==
    [ failAt  : 0..4,
      status  : IF ptype = "maven"
                THEN {201, StatusConflict, 500} ELSE {0},
      gemspec : IF ptype = "rubygems" THEN BOOLEAN ELSE {FALSE} ]

\* the steps of the upload closure of each provider, in program order
ClosureSteps(ptype, gemspec) ==
    CASE ptype = "maven"     -> <<"GetUploadUrl", "Rename", "UploadFile">>
      [] ptype = "npm"       -> <<"WriteNpmrc", "Extract", "Rename", "Publish">>
      [] ptype = "rubygems"  -> IF gemspec THEN <<"Unpack", "Rename", "Build", "Push">>
                                           ELSE <<"Unpack", "Push">>
      [] ptype = "nuget"     -> <<"Rename", "GetUploadUrl", "Push">>
      [] ptype = "container" -> <<"Rename", "GetUploadUrl", "ImagePush">>

\* steps whose error the closure returns (GetUploadUrl never fails; the
\* Maven Rename only warns)
Failable(ptype, step) ==
    /\ step # "GetUploadUrl"
    /\ ~(ptype = "maven" /\ step = "Rename")

upload(ptype, x) ==
    LET all    == ClosureSteps(ptype, x.gemspec)
        failed == x.failAt \in 1..Len(all) /\ Failable(ptype, all[x.failAt])
    IN  IF failed
        THEN [ state |-> Failed, err |-> TRUE, steps |-> SubSeq(all, 1, x.failAt),
               status |-> 0 ]
        ELSE IF ptype = "maven"
        THEN IF x.status = StatusConflict
             THEN [ state |-> Skipped, err |-> FALSE, steps |-> all, status |-> x.status ]
             ELSE IF x.status > 299
             THEN [ state |-> Failed, err |-> TRUE, steps |-> all, status |-> x.status ]
             ELSE [ state |-> Success, err |-> FALSE, steps |-> all, status |-> x.status ]
        ELSE [ state |-> Success, err |-> FALSE, steps |-> all, status |-> 0 ]

\* variant of uploadPackage without the check of the package directory
uploadPackageUnchecked(ptype, dirExists, x) ==
    LET r == upload(ptype, x)
    IN  IF r.err
        THEN [ state |-> Failed, err |-> TRUE,
               steps |-> <<"FileExists", "getUrl">> \o r.steps, status |-> r.status ]
        ELSE [ state |-> Success, err |-> FALSE,
               steps |-> <<"FileExists", "getUrl">> \o r.steps, status |-> r.status ]

uploadPackage(ptype, dirExists, x) ==
    IF ~dirExists
    THEN [ state |-> Skipped, err |-> FALSE, steps |-> <<"FileExists">>, status |-> 0 ]
    ELSE LET r == upload(ptype, x)
         IN  IF r.err
             THEN [ state |-> Failed, err |-> TRUE,
                    steps |-> <<"FileExists", "getUrl">> \o r.steps, status |-> r.status ]
             ELSE [ state |-> Success, err |-> FALSE,
                    steps |-> <<"FileExists", "getUrl">> \o r.steps, status |-> r.status ]

\* the (ResultState, error) pairs provider.Download / provider.Upload can return
DownloadReturns ==
    { [ state |-> r.state, err |-> r.err ] :
        r \in { downloadPackage(e, m, n) : e \in BOOLEAN, m \in BOOLEAN, n \in NetOutcomes } }

UploadReturns(ptype) ==
    { [ state |-> r.state, err |-> r.err ] :
        r \in { uploadPackage(ptype, e, x) : e \in BOOLEAN, x \in UploadInputs(ptype) } }

\* ------------------------------------------------------------------------
\* Report
\* ------------------------------------------------------------------------
PackageTypes == { row[3] : row \in RowUniverse }

NewReport ==
    [ PackageSuccess |-> 0, VersionSuccess |-> 0, FileSuccess |-> 0,
      PackagesSkipped |-> 0, VersionsSkipped |-> 0, FilesSkipped |-> 0,
      PackagesFailed |-> 0, VersionsFailed |-> 0, FilesFailed |-> 0,
      PackageSuccessByType |-> [ t \in PackageTypes |-> 0 ],
      PackageFailedByType  |-> [ t \in PackageTypes |-> 0 ],
      PackageSkippedByType |-> [ t \in PackageTypes |-> 0 ] ]

\* variant of IncPackages whose Skipped case also counts a skipped version
IncPackagesWithVersion(r, result, packageType) ==
    CASE result = Success ->
            [ r EXCEPT !.PackageSuccess = @ + 1,
                       !.PackageSuccessByType[packageType] = @ + 1 ]
      [] result = Failed ->
            [ r EXCEPT !.PackagesFailed = @ + 1,
                       !.PackageFailedByType[packageType] = @ + 1 ]
      [] result = Skipped ->
            [ r EXCEPT !.PackagesSkipped = @ + 1,
                       !.VersionsSkipped = @ + 1,
                       !.PackageSkippedByType[packageType] = @ + 1 ]

IncPackages(r, result, packageType) ==
    CASE result = Success ->
            [ r EXCEPT !.PackageSuccess = @ + 1,
                       !.PackageSuccessByType[packageType] = @ + 1 ]
      [] result = Failed ->
            [ r EXCEPT !.PackagesFailed = @ + 1,
                       !.PackageFailedByType[packageType] = @ + 1 ]
      [] result = Skipped ->
            [ r EXCEPT !.PackagesSkipped = @ + 1,
                       !.PackageSkippedByType[packageType] = @ + 1 ]

IncVersions(r, result) ==
    CASE result = Success -> [ r EXCEPT !.VersionSuccess = @ + 1 ]
      [] result = Skipped -> [ r EXCEPT !.VersionsSkipped = @ + 1 ]
      [] result = Failed  -> [ r EXCEPT !.VersionsFailed = @ + 1 ]

\* the counter IncFiles increments for a result
FilesField(result) ==
    CASE result = Success -> "FileSuccess"
      [] result = Skipped -> "FilesSkipped"
      [] result = Failed  -> "FilesFailed"

IncFiles(r, result) == [ r EXCEPT ![FilesField(result)] = @ + 1 ]

\* ------------------------------------------------------------------------
\* State
\* ------------------------------------------------------------------------
VARIABLES
    packages,            \* the catalog rows handed to ProcessPackages
    skipIfExists,        \* FALSE: Pull with pull.Download, TRUE: Sync with sync.Upload
    desiredPackageType,  \* viper "PACKAGE_TYPE"
    pc,                  \* position of ProcessPackages
    gi,                  \* position in pkgs (the code's i is gi - 1)
    provider,            \* package type of the held Provider, "nil" if none
    order,               \* the versions of the current group in processing order
    vi,                  \* position in order
    filenames,           \* the filenames of the current version
    snap,                \* the counter values ProcessPackages remembers
    report,              \* the Report
    workers,             \* the goroutines of the current callback, by filename
    sem,                 \* occupancy of the semaphore channel
    errChan,             \* the filenames whose error is buffered in errChan (the
                         \* arrival order only shapes the text of the joined error)
    results,             \* UploadBatch results slice
    retErr,              \* ProcessPackages returned an error
    entry,               \* history: the Report when the current callback was invoked
    tally,               \* history: how the file transfers of the current callback ended
    calls,               \* history: the callback invocations <<group, version>>
    vlog,                \* history: the versions counted
    plog,                \* history: the packages counted
    connects,            \* history: the NewProvider / Connect calls
    files,               \* the local store: what each artifact path holds
    dirs,                \* the local store: the directories that exist
    requestCount,        \* utils.requestCount
    downloaded,          \* history: the artifacts a Download has fetched
    last,                \* history: the latest provider call and what it returned
    orgs,                \* viper GHMPKG_SOURCE_ORGANIZATION / GHMPKG_TARGET_ORGANIZATION
    recreatedShas,       \* ContainerProvider.recreatedShas: image ID -> target reference
    renames,             \* history: the ContainerProvider.Rename calls and their steps
    imageLabels,         \* inspect.Config.Labels of the source images
    urls,                \* history: the GetDownloadUrl / GetUploadUrl calls
    hostnames,           \* viper GHMPKG_SOURCE_HOSTNAME / GHMPKG_TARGET_HOSTNAME
    doc,                 \* the file a Rename works on: its name and content
    docBefore,           \* history: the file as it was when Rename was called
    config,              \* viper: the settings retryOperation and the flags use
    retry,               \* retryOperation: its locals, and the history of one call
    clock,               \* time.Now(), in seconds
    minuteStart,         \* utils.minuteStart
    hourStart,           \* utils.hourStart
    mu,                  \* utils.mu: the task that holds it, 0 if none
    callers,             \* the tasks calling CanMakeRequest: position and locals
    gate,                \* history: the CanMakeRequest calls and what they returned
    transfers            \* the DownloadFile / UploadFile calls of the tasks

vars == << packages, skipIfExists, desiredPackageType, pc, gi, provider, order, vi,
           filenames, snap, report, workers, sem, errChan, results, retErr,
           entry, tally, calls, vlog, plog, connects, files, dirs, requestCount,
           downloaded, last, orgs, recreatedShas, renames, imageLabels, urls,
           hostnames, doc, docBefore, config, retry, clock, minuteStart, hourStart, mu,
           callers, gate, transfers >>

cvars == << orgs, recreatedShas, renames, imageLabels, urls >>

tvars == << hostnames, doc, docBefore >>

rvars == << config, retry >>

gvars == << clock, minuteStart, hourStart, mu, callers, gate, transfers >>

kvars == << rvars, gvars >>

xvars == << files, dirs, requestCount, downloaded, last, cvars, tvars, kvars >>

evars == << packages, skipIfExists, desiredPackageType, pc, gi, provider, order, vi,
            filenames, snap, report, workers, sem, errChan, results, retErr,
            entry, tally, calls, vlog, plog, connects >>

\* capacity of the semaphore channel: sem := make(chan struct{}, 5)
SemCapacity == 5

pkgs == GetListOfUniqueEntries(packages, <<0, 1, 2, 3>>)

NoTally == [ success |-> 0, skipped |-> 0, failed |-> 0 ]

\* ------------------------------------------------------------------------
\* The local store under migration-packages/packages
\* ------------------------------------------------------------------------
\* one artifact per provider, and a container image of an organization whose
\* name has an upper-case letter; owner is the source organization of the run
\* (viper GHMPKG_SOURCE_ORGANIZATION)
Artifacts ==
    { [ owner |-> "acme", packageType |-> "npm", packageName |-> "p",
        version |-> "1.0.0", filename |-> "p-1.0.0.tgz" ],
      [ owner |-> "acme", packageType |-> "maven", packageName |-> "q",
        version |-> "1.0.0", filename |-> "q-1.0.0.pom" ],
      [ owner |-> "acme", packageType |-> "rubygems", packageName |-> "g",
        version |-> "1.0.0", filename |-> "g-1.0.0.gem" ],
      [ owner |-> "acme", packageType |-> "nuget", packageName |-> "n",
        version |-> "1.0.0", filename |-> "n.1.0.0.nupkg" ],
      [ owner |-> "acme", packageType |-> "container", packageName |-> "Img",
        version |-> "sha256:1", filename |-> "img:latest" ],
      [ owner |-> "Acme", packageType |-> "container", packageName |-> "web",
        version |-> "sha256:2", filename |-> "web:v1" ] }

\* strings.ToLower, on the names used here
ToLower(s) ==
    CASE s = "Img"  -> "img"
      [] s = "Acme" -> "acme"
      [] OTHER      -> s

\* strings.Split(filename, ":")[1], on the filenames used here
Tag(filename) ==
    CASE filename = "img:latest" -> "latest"
      [] filename = "web:v1"     -> "v1"
      [] OTHER                   -> ""

\* the version pull.Download hands to provider.Download
CallVersion(a) ==
    IF a.packageType = "container" THEN Tag(a.filename) ELSE a.version

\* ContainerProvider.normalizeNames, for the package name
normalizeNames(a) ==
    IF a.packageType = "container" THEN ToLower(a.packageName) ELSE a.packageName

\* the name each provider's Download stores the artifact under
downloadedFilename(a) ==
    CASE a.packageType = "container" ->
            normalizeNames(a) \o "-" \o Tag(a.filename) \o ".tar"
      [] a.packageType = "npm" -> a.packageName \o "-" \o a.version \o ".tgz"
      [] OTHER -> a.filename

\* downloadPackage: filepath.Join("migration-packages", "packages", owner, ...)
outputPath(a) ==
    << "migration-packages", "packages",
       IF a.packageType = "container" THEN ToLower(a.owner) ELSE a.owner,
       a.packageType, normalizeNames(a), CallVersion(a), downloadedFilename(a) >>

\* filepath.Dir
Dir(path) == SubSeq(path, 1, Len(path) - 1)

\* uploadPackage: the directory Upload reads the artifact from
packageDir(a) ==
    << "migration-packages", "packages", a.owner, a.packageType, normalizeNames(a),
       IF a.packageType = "container" THEN Tag(a.filename) ELSE a.version >>

\* utils.FileExists
FileExists(path) ==
    \/ path \in dirs
    \/ path \in DOMAIN files /\ files[path] # "absent"

NoCall == [ op |-> "none", artifact |-> "none", existed |-> FALSE, state |-> Success,
            err |-> FALSE, steps |-> <<>>, status |-> 0 ]

\* the store for the artifacts in held, after an earlier run fetched those
\* in present
StoreStart(held, present) ==
    /\ files = [ path \in { outputPath(a) : a \in held } |->
                   IF path \in { outputPath(a) : a \in present } THEN "full" ELSE "absent" ]
    /\ dirs = { Dir(outputPath(a)) : a \in present }
    /\ requestCount = 0
    /\ downloaded = {}
    /\ last = NoCall

\* a fresh ContainerProvider (NewContainerProvider) under organization setting o
RenameStart(o) ==
    /\ orgs = o
    /\ recreatedShas = <<>>
    /\ renames = <<>>
    /\ urls = <<>>

\* the images' labels, the hostname settings and the file handed to Rename
PayloadStart(labels, h, d) ==
    /\ imageLabels = labels
    /\ hostnames = h
    /\ doc = d
    /\ docBefore = <<>>

NoLabels == <<>>

DefaultHostnames == [ source |-> "", target |-> "" ]

NoDoc == [ name |-> "", content |-> <<>> ]


DefaultOrgs == [ source |-> "acme", target |-> "acme-new" ]

\* the largest number of attempts a setting asks for
MaxAttempts == 4

\* the tasks that call CanMakeRequest in parallel
MaxTasks == 2

\* the CanMakeRequest calls of one run
MaxCalls == 3

\* the times the clock advances in one run
MaxTicks == 2

Tasks == 1..MaxTasks

\* the flags --retry-max and --retry-delay with their defaults, bound to the
\* viper keys RETRY_MAX and RETRY_DELAY; MAX_RETRIES is not set (GetInt gives
\* 0); the two tokens are set
DefaultConfig ==
    [ RETRY_MAX |-> 3, RETRY_DELAY |-> "1s", MAX_RETRIES |-> 0,
      GHMPKG_SOURCE_TOKEN |-> "token-s", GHMPKG_TARGET_TOKEN |-> "token-t" ]

NoRetry == [ pc |-> "idle", maxRetries |-> 0, retryDelay |-> 0, attempt |-> 0,
             calls |-> <<>>, waits |-> <<>>, result |-> "none" ]

\* the settings as viper holds them before retryOperation is called
RetryStart(c) ==
    /\ config = c
    /\ retry = NoRetry

IdleCaller == [ pc |-> "idle", now |-> 0, count |-> 0, reset |-> FALSE ]

\* the rate guard at time c0, its windows begun at ms and hs, n requests
\* admitted since the counter was last reset; earlier tells when the calls
\* admitted before were made
GuardStart(c0, ms, hs, n, earlier) ==
    /\ clock = c0
    /\ minuteStart = ms
    /\ hourStart = hs
    /\ mu = 0
    /\ callers = [ t \in Tasks |-> IdleCaller ]
    /\ gate = [ admitted |-> n, log |-> <<>>, ticks |-> 0, earlier |-> earlier ]

\* a call of DownloadFile or UploadFile that has reached its loop
NewTransfer(op) == [ op |-> op, pc |-> "loop", wake |-> 0, sent |-> 0, failed |-> FALSE ]

\* task t calls ops[t]
TransferStart(ops) == transfers = [ t \in Tasks |-> NewTransfer(ops[t]) ]

NoTransfers == TransferStart([ t \in Tasks |-> "none" ])

\* the retry helper and the rate guard before anything has used them
IdleStart ==
    /\ RetryStart(DefaultConfig)
    /\ GuardStart(0, 0, 0, 0, <<>>)
    /\ NoTransfers

\* the state of everything outside the engine and the store when they run
RestStart ==
    /\ RenameStart(DefaultOrgs)
    /\ PayloadStart(NoLabels, DefaultHostnames, NoDoc)
    /\ IdleStart

EngineStart(catalog, skip, desired) ==
    /\ packages = catalog
    /\ skipIfExists = skip
    /\ desiredPackageType = desired
    /\ pc = "group"
    /\ gi = 1
    /\ provider = "nil"
    /\ order = <<>>
    /\ vi = 1
    /\ filenames = <<>>
    /\ snap = [ versionsSkipped |-> 0, versionsFailed |-> 0,
                filesSkipped |-> 0, filesFailed |-> 0 ]
    /\ report = NewReport
    /\ workers = <<>>
    /\ sem = 0
    /\ errChan = {}
    /\ results = <<>>
    /\ retErr = FALSE
    /\ entry = NewReport
    /\ tally = NoTally
    /\ calls = <<>>
    /\ vlog = <<>>
    /\ plog = <<>>
    /\ connects = <<>>

Init ==
    \E catalog \in Catalogs, skip \in BOOLEAN, desired \in DesiredTypes :
        EngineStart(catalog, skip, desired) /\ StoreStart({}, {}) /\ RestStart

\* ------------------------------------------------------------------------
\* ProcessPackages: one iteration of the loop over pkgs, up to the versions
\* ------------------------------------------------------------------------
\* variant of NeedsProvider that builds a Provider for every group
NeedsProviderAlways(held, packageType) == TRUE

\* if provider == nil || provider.GetPackageType() != packageType
NeedsProvider(held, packageType) == held = "nil" \/ held # packageType

\* Connect: only the container provider logs in and can fail
\* what RegistryLogin answers: a status, or "error" for a returned error
LoginAnswers == { "Login Succeeded", "denied", "error" }

\* what one Connect meets: whether the Docker client can be created, and the
\* answers of the two registries
ConnectInputs == [ client : BOOLEAN, source : LoginAnswers, target : LoginAnswers ]

\* variant of LoginSucceeded that takes every status for a success
LoginSucceededAlways(status) == TRUE

\* loginResp.Status != "Login Succeeded" is a failure
LoginSucceeded(status) == status = "Login Succeeded"

\* ContainerProvider.login at registry addr
login(addr, answer) ==
    IF answer = "error" \/ ~LoginSucceeded(answer)
    THEN [ addr |-> addr, answer |-> answer, authStr |-> "", err |-> TRUE ]
    ELSE [ addr |-> addr, answer |-> answer, authStr |-> "auth:" \o addr, err |-> FALSE ]

NoSession == [ connected |-> TRUE, sourceAuthStr |-> "", targetAuthStr |-> "",
               logins |-> <<>> ]

\* ContainerProvider.Connect under organizations o and settings c
ContainerConnect(o, c, x) ==
    LET refused == [ NoSession EXCEPT !.connected = FALSE ]
        src == login("source", x.source)
        tgt == login("target", x.target)
    IN  IF o.source = "" \/ c.GHMPKG_SOURCE_TOKEN = "" THEN refused
        ELSE IF ~x.client THEN refused
        ELSE IF src.err THEN [ refused EXCEPT !.logins = << src >> ]
        ELSE IF o.target # "" /\ c.GHMPKG_TARGET_TOKEN # ""
        THEN IF tgt.err
             THEN [ refused EXCEPT !.sourceAuthStr = src.authStr,
                                   !.logins = << src, tgt >> ]
             ELSE [ NoSession EXCEPT !.sourceAuthStr = src.authStr,
                                     !.targetAuthStr = tgt.authStr,
                                     !.logins = << src, tgt >> ]
        ELSE [ NoSession EXCEPT !.sourceAuthStr = src.authStr, !.logins = << src >> ]

\* provider.Connect: only the container provider does anything
ConnectOutcomes(packageType) ==
    IF packageType = "container"
    THEN { ContainerConnect(orgs, config, x) : x \in ConnectInputs }
    ELSE { NoSession }

\* api.PackageExists: (true, nil), (false, nil) or (false, err)
PreCheckOutcomes == {"exists", "absent", "error"}

\* variant of ProcessingOrder that walks the versions as enumerated
ProcessingOrderAsEnumerated(versions) == versions

\* for i := len(versions) - 1; i >= 0; i--
ProcessingOrder(versions) == Reverse(versions)

Return(err) ==
    /\ pc' = "done"
    /\ retErr' = err

NextGroup ==
    /\ pc = "group"
    /\ UNCHANGED xvars
    /\ UNCHANGED << packages, skipIfExists, desiredPackageType, filenames, workers, sem,
                    errChan, results, entry, tally, calls, vlog >>
    /\ IF gi > Len(pkgs)
       THEN /\ Return(FALSE)
            /\ UNCHANGED << gi, provider, order, vi, snap, report, plog, connects >>
       ELSE LET pkg == pkgs[gi]
                packageType == pkg[3]
                create == NeedsProvider(provider, packageType)
            IN  IF gi = 1 \/ (desiredPackageType # "" /\ packageType # desiredPackageType)
                THEN \* if i == 0 { continue }  and the package type filter
                     /\ gi' = gi + 1
                     /\ UNCHANGED << pc, retErr, provider, order, vi, snap, report, plog,
                                     connects >>
                ELSE IF create /\ packageType \notin providerLookup
                THEN \* NewProvider: provider not found
                     /\ Return(TRUE)
                     /\ provider' = "nil"
                     /\ connects' = Append(connects,
                                            [ type |-> packageType, created |-> FALSE ]
                                                @@ [ NoSession EXCEPT !.connected = FALSE ])
                     /\ UNCHANGED << gi, order, vi, snap, report, plog >>
                ELSE \E c \in (IF create THEN ConnectOutcomes(packageType) ELSE {NoSession}),
                        pre \in (IF skipIfExists THEN PreCheckOutcomes ELSE {"absent"}) :
                     /\ provider' = packageType
                     /\ connects' = IF create
                                    THEN Append(connects, [ type |-> packageType,
                                                            created |-> TRUE ] @@ c)
                                    ELSE connects
                     /\ IF ~c.connected
                        THEN /\ Return(TRUE)
                             /\ UNCHANGED << gi, order, vi, snap, report, plog >>
                        ELSE IF pre = "error"
                        THEN /\ report' = IncPackages(report, Failed, packageType)
                             /\ plog' = Append(plog, [ grp |-> pkg, counted |-> Failed,
                                                        by |-> "precheck" ])
                             /\ Return(TRUE)
                             /\ UNCHANGED << gi, order, vi, snap >>
                        ELSE IF pre = "exists"
                        THEN /\ report' = IncPackages(report, Skipped, packageType)
                             /\ plog' = Append(plog, [ grp |-> pkg, counted |-> Skipped,
                                                        by |-> "precheck" ])
                             /\ gi' = gi + 1
                             /\ UNCHANGED << pc, retErr, order, vi, snap >>
                        ELSE /\ order' = ProcessingOrder(GetFlatListOfColumn(packages, pkg, 4))
                             /\ vi' = 1
                             /\ snap' = [ snap EXCEPT
                                            !.versionsSkipped = report.VersionsSkipped,
                                            !.versionsFailed = report.VersionsFailed ]
                             /\ pc' = "version"
                             /\ UNCHANGED << gi, retErr, report, plog >>

\* ------------------------------------------------------------------------
\* ProcessPackages: the loop over the versions of a group
\* ------------------------------------------------------------------------
\* which callback code runs: pull.Download, or sync.Upload with its Maven
\* special case (UploadBatch) or its sequential loop
Kind ==
    IF ~skipIfExists THEN "Download"
    ELSE IF provider = "maven" THEN "UploadBatch" ELSE "Upload"

InvokeCallback ==
    /\ pc = "version"
    /\ UNCHANGED xvars
    /\ vi <= Len(order)
    /\ LET pkg == pkgs[gi]
           version == order[vi]
           names == GetFlatListOfColumn(packages, Append(pkg, version), 5)
       IN  /\ filenames' = names
           /\ workers' = [ k \in 1..Len(names) |-> "waiting" ]
           /\ results' = [ k \in 1..Len(names) |-> Success ]
           /\ calls' = Append(calls, << pkg, version, Len(connects) >>)
    /\ snap' = [ snap EXCEPT !.filesSkipped = report.FilesSkipped,
                             !.filesFailed = report.FilesFailed ]
    /\ sem' = 0
    /\ errChan' = {}
    /\ entry' = report
    /\ tally' = NoTally
    /\ pc' = "callback"
    /\ UNCHANGED << packages, skipIfExists, desiredPackageType, gi, provider, order, vi,
                    report, retErr, vlog, plog, connects >>

\* the outcome ProcessPackages derives from two counters and their old values
RollUp(failedNow, failedBefore, skippedNow, skippedBefore) ==
    IF failedNow > failedBefore THEN Failed
    ELSE IF skippedNow > skippedBefore THEN Skipped
    ELSE Success

RollUpPackage ==
    /\ pc = "version"
    /\ UNCHANGED xvars
    /\ vi > Len(order)
    /\ LET pkg == pkgs[gi]
           outcome == RollUp(report.VersionsFailed, snap.versionsFailed,
                             report.VersionsSkipped, snap.versionsSkipped)
       IN  /\ report' = IncPackages(report, outcome, pkg[3])
           /\ plog' = Append(plog, [ grp |-> pkg, counted |-> outcome, by |-> "rollup" ])
    /\ gi' = gi + 1
    /\ pc' = "group"
    /\ UNCHANGED << packages, skipIfExists, desiredPackageType, provider, order, vi,
                    filenames, snap, workers, sem, errChan, results, retErr, entry, tally,
                    calls, vlog, connects >>

\* ------------------------------------------------------------------------
\* The callbacks: pull.Download, sync.Upload and MavenProvider.UploadBatch
\* ------------------------------------------------------------------------
\* variant of CanAcquire for a send that never blocks
CanAcquireAlways(occupancy) == TRUE

\* variant of CanAcquire for a channel nobody can send to
CanAcquireNever(occupancy) == FALSE

\* sem <- struct{}{} blocks while the channel is full
CanAcquire(occupancy) == occupancy < SemCapacity

\* Report has no lock, so r.FileSuccess++ in one goroutine races with the
\* same statement in the other goroutines of the callback: the value stored
\* is one more than any value the counter has held since the callback was
\* invoked (base), up to one more than its present value (current)
RacyIncrement(base, current) == (base + 1)..(current + 1)

\* variant of Send that keeps only the first error
SendFirstOnly(chan, filename) == IF chan = {} THEN {filename} ELSE chan

\* errChan <- fmt.Errorf("failed to download %s: %w", filename, err); the
\* channel is buffered for len(filenames) errors, so the send never blocks
Send(chan, filename) == chan \cup {filename}

Bump(t, field) == [ t EXCEPT ![field] = @ + 1 ]

TallyField(result) ==
    CASE result = Success -> "success"
      [] result = Skipped -> "skipped"
      [] result = Failed  -> "failed"

\* a goroutine of pull.Download or UploadBatch takes a slot of the semaphore
Acquire(k) ==
    /\ pc = "callback"
    /\ Kind \in {"Download", "UploadBatch"}
    /\ k \in DOMAIN workers
    /\ workers[k] = "waiting"
    /\ CanAcquire(sem)
    /\ workers' = [ workers EXCEPT ![k] = "running" ]
    /\ sem' = sem + 1
    /\ UNCHANGED << packages, skipIfExists, desiredPackageType, pc, gi, provider, order,
                    vi, filenames, snap, report, errChan, results, retErr, entry, tally,
                    calls, vlog, plog, connects >>
    /\ UNCHANGED xvars

\* pull.Download: provider.Download returns in goroutine k, which then sends
\* to errChan or calls report.IncFiles, and releases its slot
Transfer(k) ==
    /\ pc = "callback"
    /\ Kind = "Download"
    /\ k \in DOMAIN workers
    /\ workers[k] = "running"
    /\ \E r \in DownloadReturns :
         IF r.err
         THEN /\ errChan' = Send(errChan, filenames[k])
              /\ tally' = Bump(tally, "failed")
              /\ UNCHANGED report
         ELSE /\ \E v \in RacyIncrement(entry[FilesField(r.state)],
                                        report[FilesField(r.state)]) :
                    report' = [ report EXCEPT ![FilesField(r.state)] = v ]
              /\ tally' = Bump(tally, TallyField(r.state))
              /\ UNCHANGED errChan
    /\ workers' = [ workers EXCEPT ![k] = "done" ]
    /\ sem' = sem - 1
    /\ UNCHANGED << packages, skipIfExists, desiredPackageType, pc, gi, provider, order,
                    vi, filenames, snap, results, retErr, entry, calls, vlog, plog, connects >>
    /\ UNCHANGED xvars

\* UploadBatch: p.Upload returns in goroutine k, which then sends to errChan
\* or stores results[idx], and releases its slot
BatchUpload(k) ==
    /\ pc = "callback"
    /\ Kind = "UploadBatch"
    /\ k \in DOMAIN workers
    /\ workers[k] = "running"
    /\ \E r \in UploadReturns(provider) :
         IF r.err
         THEN /\ errChan' = errChan \cup {filenames[k]}
              /\ tally' = Bump(tally, "failed")
              /\ UNCHANGED results
         ELSE /\ results' = [ results EXCEPT ![k] = r.state ]
              /\ tally' = Bump(tally, TallyField(r.state))
              /\ UNCHANGED errChan
    /\ workers' = [ workers EXCEPT ![k] = "done" ]
    /\ sem' = sem - 1
    /\ UNCHANGED << packages, skipIfExists, desiredPackageType, pc, gi, provider, order,
                    vi, filenames, snap, report, retErr, entry, calls, vlog, plog, connects >>
    /\ UNCHANGED xvars

\* sync.Upload, the sequential loop: one provider.Upload, in filename order;
\* an error returns at once and leaves the remaining filenames untouched
UploadNext(k) ==
    /\ pc = "callback"
    /\ Kind = "Upload"
    /\ k \in DOMAIN workers
    /\ workers[k] = "waiting"
    /\ \A j \in 1..(k - 1) : workers[j] = "done"
    /\ errChan = {}
    /\ \E r \in UploadReturns(provider) :
         IF r.err
         THEN /\ errChan' = {filenames[k]}
              /\ tally' = Bump(tally, "failed")
              /\ UNCHANGED report
         ELSE /\ report' = IncFiles(report, r.state)
              /\ tally' = Bump(tally, TallyField(r.state))
              /\ UNCHANGED errChan
    /\ workers' = [ workers EXCEPT ![k] = "done" ]
    /\ UNCHANGED << packages, skipIfExists, desiredPackageType, pc, gi, provider, order,
                    vi, filenames, snap, sem, results, retErr, entry, calls, vlog, plog, connects >>
    /\ UNCHANGED xvars

FilesTotal(r) == r.FileSuccess + r.FilesSkipped + r.FilesFailed

\* for i, result := range results { report.IncFiles(result) }
RECURSIVE IncFilesAll(_, _)
IncFilesAll(r, rs) ==
    IF rs = <<>> THEN r ELSE IncFilesAll(IncFiles(r, Head(rs)), Tail(rs))

\* variant of Joined for a callback that does not wait for its goroutines
JoinedAtOnce == TRUE

\* wg.Wait() has returned, or the sequential loop has ended
Joined ==
    IF Kind = "Upload"
    THEN errChan # {} \/ \A k \in DOMAIN workers : workers[k] = "done"
    ELSE \A k \in DOMAIN workers : workers[k] = "done"

\* the callback returns; ProcessPackages counts the version and, on an
\* error, returns before it counts the package
\* variant of CountVersion that checks the callback's error first
CountVersionUnlessError(r, outcome, err) == IF err THEN r ELSE IncVersions(r, outcome)

\* the IncVersions call after the callback, made before err is looked at
CountVersion(r, outcome, err) == IncVersions(r, outcome)

CallbackReturn ==
    /\ pc = "callback"
    /\ Joined
    /\ LET err == errChan # {}
           counted == IF Kind = "UploadBatch" /\ ~err
                      THEN IncFilesAll(report, results)
                      ELSE report
           outcome == RollUp(counted.FilesFailed, snap.filesFailed,
                             counted.FilesSkipped, snap.filesSkipped)
       IN  /\ report' = CountVersion(counted, outcome, err)
           /\ vlog' = Append(vlog, [ grp |-> pkgs[gi], version |-> order[vi],
                                     files |-> Len(filenames), tally |-> tally,
                                     counted |-> outcome, err |-> err,
                                     errs |-> Cardinality(errChan),
                                     gained |-> FilesTotal(counted) - FilesTotal(entry) ])
           /\ IF err
              THEN /\ Return(TRUE)
                   /\ UNCHANGED vi
              ELSE /\ vi' = vi + 1
                   /\ pc' = "version"
                   /\ UNCHANGED retErr
    /\ UNCHANGED << packages, skipIfExists, desiredPackageType, gi, provider, order,
                    filenames, snap, workers, sem, errChan, results, entry, tally, calls,
                    plog, connects >>
    /\ UNCHANGED xvars

Next ==
    \/ NextGroup
    \/ InvokeCallback
    \/ RollUpPackage
    \/ \E k \in 1..MaxFiles : Acquire(k)
    \/ \E k \in 1..MaxFiles : Transfer(k)
    \/ \E k \in 1..MaxFiles : BatchUpload(k)
    \/ \E k \in 1..MaxFiles : UploadNext(k)
    \/ CallbackReturn

Spec == Init /\ [][Next]_vars

\* ------------------------------------------------------------------------
\* One version with many files: the worker pool of a callback
\* ------------------------------------------------------------------------
PoolRow(packageType, k) ==
    IF packageType = "container"
    THEN << "acme", "repo3", "container", "img", "sha256:1", "img:" \o ToString(k) >>
    ELSE << "acme", "repo2", "maven", "q", "1.0.0", "q-1.0.0-" \o ToString(k) \o ".jar" >>

\* a catalog whose second group has one version with n files
PoolCatalog(packageType, n) ==
    << << "acme", "repo1", "npm", "p", "1.0.0", "p-1.0.0.tgz" >> >>
        \o [ k \in 1..n |-> PoolRow(packageType, k) ]

PoolInit ==
    \E packageType \in {"maven", "container"}, n \in 1..MaxFiles, skip \in BOOLEAN :
        /\ EngineStart(PoolCatalog(packageType, n), skip, "")
        /\ StoreStart({}, {})
        /\ RestStart

SpecPool == PoolInit /\ [][Next]_vars

(***************************************************************************)
(* pull.Download under the scheduling Go gives its goroutines: while a     *)
(* slot of sem is free and goroutines wait for one, one of them gets it;   *)
(* each provider.Download call returns; wg.Wait() returns once every       *)
(* goroutine is done.                                                      *)
(***************************************************************************)

\* pull.Download entered with no filenames: the loop starts no goroutine
ZeroStart ==
    /\ packages = << << "acme", "repo1", "npm", "p", "1.0.0", "p-1.0.0.tgz" >> >>
    /\ skipIfExists = FALSE
    /\ desiredPackageType = ""
    /\ pc = "callback"
    /\ gi = 1
    /\ provider = "npm"
    /\ order = << "1.0.0" >>
    /\ vi = 1
    /\ filenames = <<>>
    /\ snap = [ versionsSkipped |-> 0, versionsFailed |-> 0,
                filesSkipped |-> 0, filesFailed |-> 0 ]
    /\ report = NewReport
    /\ workers = <<>>
    /\ sem = 0
    /\ errChan = {}
    /\ results = <<>>
    /\ retErr = FALSE
    /\ entry = NewReport
    /\ tally = NoTally
    /\ calls = <<>>
    /\ vlog = <<>>
    /\ plog = <<>>
    /\ connects = << >>

DownloadInit ==
    /\ \/ ZeroStart
       \/ \E n \in 1..MaxFiles : EngineStart(PoolCatalog("maven", n), FALSE, "")
    /\ StoreStart({}, {})
    /\ RestStart

DownloadNext ==
    \/ NextGroup
    \/ InvokeCallback
    \/ RollUpPackage
    \/ \E k \in 1..MaxFiles : Acquire(k)
    \/ \E k \in 1..MaxFiles : Transfer(k)
    \/ CallbackReturn

DownloadFairness ==
    /\ WF_vars(\E k \in 1..MaxFiles : Acquire(k))
    /\ WF_vars(\E k \in 1..MaxFiles : Transfer(k))
    /\ WF_vars(CallbackReturn)

SpecDownload == DownloadInit /\ [][DownloadNext]_vars /\ DownloadFairness

(***************************************************************************)
(* A run over container images under every setting of the organizations    *)
(* and tokens ContainerProvider.Connect looks at.                          *)
(***************************************************************************)

\* GHMPKG_SOURCE_ORGANIZATION, GHMPKG_TARGET_ORGANIZATION and the two tokens:
\* all set, or one of them empty
ConnectSettings ==
    { [ o |-> DefaultOrgs, c |-> DefaultConfig ],
      [ o |-> [ DefaultOrgs EXCEPT !.source = "" ], c |-> DefaultConfig ],
      [ o |-> [ DefaultOrgs EXCEPT !.target = "" ], c |-> DefaultConfig ],
      [ o |-> DefaultOrgs, c |-> [ DefaultConfig EXCEPT !.GHMPKG_SOURCE_TOKEN = "" ] ],
      [ o |-> DefaultOrgs, c |-> [ DefaultConfig EXCEPT !.GHMPKG_TARGET_TOKEN = "" ] ] }

ConnectCatalog ==
    << << "acme", "repo1", "npm", "p", "1.0.0", "p-1.0.0.tgz" >>,
       << "acme", "repo3", "container", "img", "sha256:1", "img:latest" >>,
       << "acme", "repo3", "container", "img", "sha256:1", "img:v1" >>,
       << "acme", "repo3", "container", "web", "sha256:2", "web:v1" >> >>

ConnectInit ==
    \E setting \in ConnectSettings, skip \in BOOLEAN :
        /\ EngineStart(ConnectCatalog, skip, "")
        /\ StoreStart({}, {})
        /\ RenameStart(setting.o)
        /\ PayloadStart(NoLabels, DefaultHostnames, NoDoc)
        /\ RetryStart(setting.c)
        /\ GuardStart(0, 0, 0, 0, <<>>)
        /\ NoTransfers

ConnectNext ==
    \/ NextGroup
    \/ InvokeCallback
    \/ RollUpPackage
    \/ \E k \in 1..MaxFiles : Acquire(k)
    \/ \E k \in 1..MaxFiles : Transfer(k)
    \/ \E k \in 1..MaxFiles : UploadNext(k)
    \/ CallbackReturn

SpecConnect == ConnectInit /\ [][ConnectNext]_vars

(***************************************************************************)
(* export.Export.  Here packages holds the rows the source organization    *)
(* has packages for, pc and gi are the position of Export in its loop over *)
(* the package types, and files and dirs are the disk.  The counters of    *)
(* the export summary are left out.                                        *)
(***************************************************************************)

\* the packages (rows) of the largest source organization
MaxInventory == 2

SUPPORTED_PACKAGE_TYPES == << "maven", "npm", "container", "rubygems", "nuget" >>

\* values of the GHMPKG_PACKAGE_TYPES setting: none, one type, an unknown type
ExportDesired == { "", "npm", "helm" }

Inventories ==
    { c \in SeqsUpTo(RowUniverse, MaxInventory) :
          \A i, j \in 1..Len(c) : i # j => c[i] # c[j] }

CsvHeader ==
    << "organization", "repository", "package_type", "package_name", "package_version",
       "package_filename" >>

\* the package types Export works through; <<"error">> for an unsupported one
ExportTypes(desired) ==
    IF desired = "" THEN SUPPORTED_PACKAGE_TYPES
    ELSE IF desired \in Range(SUPPORTED_PACKAGE_TYPES) THEN << desired >>
    ELSE << "error" >>

RowsOfType(rows, packageType) == SelectSeq(rows, LAMBDA row : row[3] = packageType)

ExportDir(packageType) == << "migration-packages", "export", packageType >>

\* <timestamp>_<owner>_<packageType>_packages.csv in the directory of the type
ExportCsv(packageType) == Append(ExportDir(packageType), "packages.csv")

\* the base directory and the validation of the desired package types
ExportBegin(baseOk) ==
    /\ pc = "export"
    /\ IF ~baseOk
       THEN /\ Return(TRUE)
            /\ UNCHANGED << gi, dirs >>
       ELSE /\ dirs' = dirs \cup { << "migration-packages", "export" >> }
            /\ IF ExportTypes(desiredPackageType) = << "error" >>
               THEN Return(TRUE) /\ UNCHANGED gi
               ELSE pc' = "export-type" /\ gi' = 1 /\ UNCHANGED retErr
    /\ UNCHANGED << packages, skipIfExists, desiredPackageType, provider, order, vi,
                    filenames, snap, report, workers, sem, errChan, results, entry,
                    tally, calls, vlog, plog, connects, files, requestCount, downloaded,
                    last, cvars, tvars, kvars >>

\* one pass of the loop over the package types: fetch the packages, make the
\* directory, write the CSV file (both whatever packagesCSV holds)
ExportType(fetchOk, dirOk, csvOk) ==
    /\ pc = "export-type"
    /\ gi <= Len(ExportTypes(desiredPackageType))
    /\ LET packageType == ExportTypes(desiredPackageType)[gi]
           packagesCSV == << CsvHeader >> \o RowsOfType(packages, packageType)
       IN  IF ~fetchOk
           THEN Return(TRUE) /\ UNCHANGED << gi, dirs, files >>
           ELSE IF ~dirOk
           THEN Return(TRUE) /\ UNCHANGED << gi, dirs, files >>
           ELSE /\ dirs' = dirs \cup { ExportDir(packageType) }
                /\ IF ~csvOk
                   THEN Return(TRUE) /\ UNCHANGED << gi, files >>
                   ELSE /\ files' = (ExportCsv(packageType) :> packagesCSV) @@ files
                        /\ gi' = gi + 1
                        /\ UNCHANGED << pc, retErr >>
    /\ UNCHANGED << packages, skipIfExists, desiredPackageType, provider, order, vi,
                    filenames, snap, report, workers, sem, errChan, results, entry,
                    tally, calls, vlog, plog, connects, requestCount, downloaded, last,
                    cvars, tvars, kvars >>

\* every package type is done: "Packages exported successfully"
ExportEnd ==
    /\ pc = "export-type"
    /\ gi > Len(ExportTypes(desiredPackageType))
    /\ Return(FALSE)
    /\ UNCHANGED << packages, skipIfExists, desiredPackageType, gi, provider, order, vi,
                    filenames, snap, report, workers, sem, errChan, results, entry,
                    tally, calls, vlog, plog, connects, xvars >>

ExportInit ==
    \E inventory \in Inventories, desired \in ExportDesired :
        /\ packages = inventory
        /\ skipIfExists = FALSE
        /\ desiredPackageType = desired
        /\ pc = "export"
        /\ gi = 1
        /\ provider = "nil"
        /\ order = <<>>
        /\ vi = 1
        /\ filenames = <<>>
        /\ snap = [ versionsSkipped |-> 0, versionsFailed |-> 0,
                    filesSkipped |-> 0, filesFailed |-> 0 ]
        /\ report = NewReport
        /\ workers = <<>>
        /\ sem = 0
        /\ errChan = {}
        /\ results = <<>>
        /\ retErr = FALSE
        /\ entry = NewReport
        /\ tally = NoTally
        /\ calls = <<>>
        /\ vlog = <<>>
        /\ plog = <<>>
        /\ connects = << >>
        /\ StoreStart({}, {})
        /\ RestStart

ExportNext ==
    \/ \E baseOk \in BOOLEAN : ExportBegin(baseOk)
    \/ \E fetchOk, dirOk, csvOk \in BOOLEAN : ExportType(fetchOk, dirOk, csvOk)
    \/ ExportEnd

SpecExport == ExportInit /\ [][ExportNext]_vars

\* ------------------------------------------------------------------------
\* The providers' Download and Upload against the local store
\* ------------------------------------------------------------------------
\* what os.Create and io.Copy leave at the output path
Written(net) == IF net = "ok" THEN "full" ELSE "partial"

\* provider.Download for artifact a, as pull.Download calls it
ProviderDownload(a, mkdirOk, net) ==
    /\ outputPath(a) \in DOMAIN files
    /\ LET path == outputPath(a)
           r    == downloadPackage(FileExists(path), mkdirOk, net)
       IN  /\ requestCount + r.requests <= MaxRequests
           /\ files' = IF r.created THEN [ files EXCEPT ![path] = Written(net) ] ELSE files
           /\ dirs' = IF r.mkdir THEN dirs \cup {Dir(path)} ELSE dirs
           /\ requestCount' = requestCount + r.requests
           /\ downloaded' = IF r.state = Success /\ ~r.err
                            THEN downloaded \cup {a} ELSE downloaded
           /\ last' = [ op |-> "Download", artifact |-> a, existed |-> FileExists(path),
                        state |-> r.state, err |-> r.err, steps |-> r.steps,
                        status |-> 0 ]
    /\ UNCHANGED << evars, cvars, tvars, kvars >>

\* provider.Upload for artifact a, as sync.Upload calls it
ProviderUpload(a, x) ==
    /\ outputPath(a) \in DOMAIN files
    /\ LET dir  == packageDir(a)
           path == outputPath(a)
           r    == uploadPackage(a.packageType, FileExists(dir), x)
           done == { r.steps[k] : k \in 1..Len(r.steps) }
           sent == IF "UploadFile" \in done THEN 1 ELSE 0
       IN  /\ requestCount + sent <= MaxRequests
           /\ files' = IF a.packageType = "maven" /\ "Rename" \in done
                          /\ files[path] # "absent"
                       THEN [ files EXCEPT ![path] = "renamed" ]
                       ELSE files
           /\ requestCount' = requestCount + sent
           /\ last' = [ op |-> "Upload", artifact |-> a, existed |-> FileExists(dir),
                        state |-> r.state, err |-> r.err, steps |-> r.steps,
                        status |-> r.status ]
    /\ UNCHANGED << dirs, downloaded >>
    /\ UNCHANGED << evars, cvars, tvars, kvars >>

XferInit ==
    \E a \in Artifacts, present \in BOOLEAN :
        /\ EngineStart(<< << "acme", "repo1", "npm", "p", "1.0.0", "p-1.0.0.tgz" >> >>,
                       FALSE, "")
        /\ StoreStart({a}, IF present THEN {a} ELSE {})
        /\ RestStart

XferNext ==
    \/ \E a \in Artifacts, mkdirOk \in BOOLEAN, net \in NetOutcomes :
            ProviderDownload(a, mkdirOk, net)
    \/ \E a \in Artifacts : \E x \in UploadInputs(a.packageType) : ProviderUpload(a, x)

SpecXfer == XferInit /\ [][XferNext]_vars

\* ------------------------------------------------------------------------
\* Text: a string is a sequence of pieces, cut where the searched strings
\* begin and end ("github.com" is "git", "hub", ".com")
\* ------------------------------------------------------------------------
RECURSIVE Replace(_, _, _, _)
\* strings.Replace(s, old, new, n) for a non-empty old: the first n
\* non-overlapping occurrences from the left, all of them when n < 0
Replace(s, old, new, n) ==
    IF n = 0 \/ Len(s) < Len(old) THEN s
    ELSE IF SubSeq(s, 1, Len(old)) = old
    THEN new \o Replace(SubSeq(s, Len(old) + 1, Len(s)), old, new, n - 1)
    ELSE <<Head(s)>> \o Replace(Tail(s), old, new, n)

\* a hostname setting as text
HostnameText(h) ==
    CASE h = ""           -> <<>>
      [] h = "github.com" -> <<"git", "hub", ".com">>

\* utils.ParseUrl(hostname) with path.Join(Path, organization), as String()
HostnameOrgText(h, org) ==
    IF h = "" THEN <<org>> ELSE HostnameText(h) \o <<"/", org>>

\* NewBaseProvider(packageType, "", "", false): https://<type>.pkg.github.com/
RegistryUrl(packageType) == << "https://", packageType, ".pkg.", "git", "hub", ".com", "/" >>

\* RubyGemsProvider.Rename: the content it leaves in the gemspec
RubyGemsRename(content, o, h) ==
    LET first == Replace(content, HostnameOrgText(h.source, o.source),
                         HostnameOrgText(h.target, o.target), -1)
    IN  Replace(first, RegistryUrl("rubygems"), RegistryUrl("rubygems"), -1)

\* variant of IsPomFile that takes every file for a POM
IsPomFileAlways(name) == TRUE

\* strings.HasSuffix(filename, "pom.xml") || strings.HasSuffix(filename, ".pom")
IsPomFile(name) == name \in {"pom.xml", "q-1.0.0.pom"}

\* fmt.Sprintf("https://maven.pkg.github.com/%s/packages", organization)
MavenUrl(org) ==
    << "https://", "maven", ".pkg.", "git", "hub", ".com", "/", org, "/", "packages" >>

\* MavenProvider.Rename: the content it leaves in the file
MavenRename(name, content, o, readOk, writeOk) ==
    IF o.source = o.target THEN content
    ELSE IF ~IsPomFile(name) THEN content
    ELSE IF ~readOk \/ ~writeOk THEN content
    ELSE Replace(content, MavenUrl(o.source), MavenUrl(o.target), -1)

\* the label ContainerProvider.Rename rewrites
SourceLabel == "org.opencontainers.image.source"

\* newLabels: a copy of the image's labels with the source label rewritten
NewLabels(labels, o) ==
    [ k \in DOMAIN labels \cup {SourceLabel} |->
        IF k = SourceLabel
        THEN Replace(IF k \in DOMAIN labels THEN labels[k] ELSE <<>>,
                     <<o.source>>, <<o.target>>, 1)
        ELSE labels[k] ]

\* ------------------------------------------------------------------------
\* ContainerProvider.Rename and its cache of recreated images
\* ------------------------------------------------------------------------
\* the image references of the catalog (package_filename, name:tag)
ImageRefs == {"img:latest", "img:v1", "web:v1"}

\* inspect.ID: the identity of the image a reference resolves to; img:latest
\* and img:v1 are two tags of one image
ImageID(filename) ==
    CASE filename = "img:latest" -> "sha256:1"
      [] filename = "img:v1"     -> "sha256:1"
      [] filename = "web:v1"     -> "sha256:2"

OrgSettings ==
    { [ source |-> "acme", target |-> "acme-new" ],
      [ source |-> "acme", target |-> "acme" ],
      [ source |-> "hub", target |-> "acme-new" ] }

\* the value of the source label of an image of organization org:
\* https://github.com/<org>/repo-name
SourceUrlLabel(org) == << "https://", "git", "hub", ".com", "/", org, "/", "repo-name" >>

\* the labels an image of organization org can carry
LabelSets(org) ==
    { [ k \in {SourceLabel, "version"} |->
          IF k = SourceLabel THEN SourceUrlLabel(org) ELSE <<"1.0">> ],
      [ k \in {SourceLabel} |-> SourceUrlLabel(org) ],
      [ k \in {"version"} |-> <<"1.0">> ] }

\* CheckOrganizationsMatch: source and target organization are the same
CheckOrganizationsMatch(o) == o.source = o.target

\* GetUploadUrl: the reference in the target registry
GetUploadUrl(owner, filename) == << "target", ToLower(owner), filename >>

\* the Docker client calls of Rename that can fail
RenameFailures == {"none", "ImageInspect", "ImageTag", "ContainerCreate", "ContainerCommit"}

\* variant of Cached that never finds an image in the cache
CachedNever(cache, id) == FALSE

\* if origTargetRef, ok := p.recreatedShas[inspect.ID]; ok
Cached(cache, id) == id \in DOMAIN cache

\* variant of Remember that stores the image identity as the value
RememberIdentity(cache, id, targetRef) == (id :> id) @@ cache

\* p.recreatedShas[inspect.ID] = targetRef
Remember(cache, id, targetRef) == (id :> targetRef) @@ cache

\* ContainerProvider.Rename: the client calls it makes, what it returns and
\* the cache it leaves, when the client call failAt fails
ContainerRename(cache, o, labels, filename, failAt) ==
    LET id        == ImageID(filename)
        targetRef == GetUploadUrl(o.target, filename)
        base      == [ filename |-> filename, id |-> id, targetRef |-> targetRef,
                       tagFrom |-> <<>>, cache |-> cache, committed |-> <<>> ]
    IN  IF CheckOrganizationsMatch(o)
        THEN [ base EXCEPT !.id = "" ] @@ [ steps |-> <<>>, err |-> FALSE ]
        ELSE IF failAt = "ImageInspect"
        THEN [ base EXCEPT !.id = "" ] @@ [ steps |-> <<"ImageInspect">>, err |-> TRUE ]
        ELSE IF Cached(cache, id)
        THEN [ base EXCEPT !.tagFrom = cache[id] ]
                 @@ [ steps |-> <<"ImageInspect", "ImageTag">>,
                      err |-> (failAt = "ImageTag") ]
        ELSE IF failAt = "ContainerCreate"
        THEN base @@ [ steps |-> <<"ImageInspect", "ContainerCreate">>, err |-> TRUE ]
        ELSE IF failAt = "ContainerCommit"
        THEN base @@ [ steps |-> <<"ImageInspect", "ContainerCreate", "ContainerCommit",
                                   "ContainerRemove">>,
                       err |-> TRUE ]
        ELSE [ base EXCEPT !.cache = Remember(cache, id, targetRef),
                           !.committed = << NewLabels(labels, o) >> ]
                 @@ [ steps |-> <<"ImageInspect", "ContainerCreate", "ContainerCommit",
                                  "ContainerRemove">>,
                      err |-> FALSE ]

\* one call of Rename on the provider instance, from ContainerProvider.Upload
RenameImage(filename, failAt) ==
    /\ Len(renames) < MaxRenames
    /\ LET r == ContainerRename(recreatedShas, orgs, imageLabels, filename, failAt)
       IN  /\ recreatedShas' = r.cache
           /\ renames' = Append(renames, [ filename |-> r.filename, id |-> r.id,
                                           targetRef |-> r.targetRef,
                                           tagFrom |-> r.tagFrom, steps |-> r.steps,
                                           committed |-> r.committed, err |-> r.err ])
    /\ UNCHANGED << orgs, imageLabels, urls, tvars, kvars, evars, files, dirs, requestCount,
                    downloaded, last >>

RenameInit ==
    \E o \in OrgSettings :
        /\ EngineStart(<< << "acme", "repo3", "container", "img", "sha256:1",
                             "img:latest" >> >>, TRUE, "")
        /\ StoreStart({}, {})
        /\ RenameStart(o)
        /\ \E labels \in LabelSets(o.source) :
               PayloadStart(labels, DefaultHostnames, NoDoc)
        /\ IdleStart

RenameNext == \E filename \in ImageRefs, failAt \in RenameFailures : RenameImage(filename, failAt)

SpecRename == RenameInit /\ [][RenameNext]_vars

\* ------------------------------------------------------------------------
\* ContainerProvider.GetDownloadUrl and GetUploadUrl, on the filenames
\* FetchPackageFiles makes

\* the calls of GetDownloadUrl / GetUploadUrl looked at
MaxUrls == 2

UrlOwners == { "acme", "Acme" }

UrlPackageNames == { "img", "Img" }

UrlTags == { "latest", "v1" }

UrlFunctions == { "GetDownloadUrl", "GetUploadUrl" }

\* ContainerProvider.FetchPackageFiles: fmt.Sprintf("%s:%s", packageName, tag)
\* for every tag, in reverse order
FetchPackageFiles(packageName, tags) ==
    [ i \in 1..Len(tags) |-> packageName \o ":" \o tags[Len(tags) + 1 - i] ]

\* GetDownloadUrl: the reference in the source registry
GetDownloadUrl(owner, filename) == << "source", ToLower(owner), filename >>

\* one call of fn for a file of package packageName carrying tag
UrlCall(fn, owner, packageName, tag) ==
    /\ Len(urls) < MaxUrls
    /\ LET filename == FetchPackageFiles(packageName, << tag >>)[1]
       IN  urls' = Append(urls,
                     [ fn |-> fn, owner |-> owner, packageName |-> packageName,
                       tag |-> tag, filename |-> filename,
                       url |-> IF fn = "GetDownloadUrl"
                               THEN GetDownloadUrl(owner, filename)
                               ELSE GetUploadUrl(owner, filename) ])
    /\ UNCHANGED << orgs, recreatedShas, renames, imageLabels, tvars, kvars, evars, files,
                    dirs, requestCount, downloaded, last >>

UrlInit ==
    /\ EngineStart(<< << "acme", "repo3", "container", "img", "sha256:1",
                         "img:latest" >> >>, TRUE, "")
    /\ StoreStart({}, {})
    /\ RestStart

UrlNext ==
    \E fn \in UrlFunctions, owner \in UrlOwners, packageName \in UrlPackageNames,
       tag \in UrlTags : UrlCall(fn, owner, packageName, tag)

SpecUrl == UrlInit /\ [][UrlNext]_vars

\* ------------------------------------------------------------------------
\* RubyGemsProvider.Rename and MavenProvider.Rename on a file
\* ------------------------------------------------------------------------
RewriteOrgs ==
    { [ source |-> "old-org", target |-> "new-org" ],
      [ source |-> "old-org", target |-> "old-org" ] }

HostnameSettings ==
    { [ source |-> "", target |-> "" ],
      [ source |-> "github.com", target |-> "github.com" ] }

\* https://rubygems.pkg.github.com/<org>
GemRegistryLine(org) == RegistryUrl("rubygems") \o <<org>>

\* https://github.com/<org>
GithubLine(org) == << "https://", "git", "hub", ".com", "/", org >>

\* the lines a gemspec is made of here
GemspecLines ==
    { GemRegistryLine("old-org"), GithubLine("old-org"),
      << "s.name = 'g'" >>, << "s.authors = ['", "old-org", "']" >> }

\* the lines a file of a Maven package is made of here
PomLines ==
    { << "<url>" >> \o MavenUrl("old-org") \o << "</url>" >>,
      << "<url>", "https://", "maven", ".pkg.", "git", "hub", ".com", "/", "old-org", "/",
         "my-repo", "</url>" >>,
      << "<artifactId>", "q", "</artifactId>" >> }

MavenFiles == {"pom.xml", "q-1.0.0.pom", "q-1.0.0.jar"}

RECURSIVE Flatten(_)
\* the content of a file with the given lines
Flatten(lines) ==
    IF lines = <<>> THEN <<>> ELSE Head(lines) \o <<"\n">> \o Flatten(Tail(lines))

Docs ==
    { [ name |-> "g.gemspec", content |-> Flatten(ls) ] :
          ls \in { l \in SeqsUpTo(GemspecLines, MaxFragments) : Len(l) >= 1 } }
    \cup
    { [ name |-> n, content |-> Flatten(ls) ] :
          n \in MavenFiles,
          ls \in { l \in SeqsUpTo(PomLines, MaxFragments) : Len(l) >= 1 } }

\* p.Rename(logger, repository, gemspecFile) in RubyGemsProvider.Upload
RenameGemspec ==
    /\ docBefore = <<>>
    /\ doc.name = "g.gemspec"
    /\ doc' = [ doc EXCEPT !.content = RubyGemsRename(doc.content, orgs, hostnames) ]
    /\ docBefore' = << [ name |-> doc.name, content |-> doc.content, io |-> TRUE ] >>
    /\ UNCHANGED << hostnames, cvars, kvars, evars, files, dirs, requestCount, downloaded,
                    last >>

\* p.Rename(logger, repository, packageName, version, inputPath) in
\* MavenProvider.Upload
RenameMavenFile(readOk, writeOk) ==
    /\ docBefore = <<>>
    /\ doc.name \in MavenFiles
    /\ doc' = [ doc EXCEPT
                  !.content = MavenRename(doc.name, doc.content, orgs, readOk, writeOk) ]
    /\ docBefore' = << [ name |-> doc.name, content |-> doc.content,
                         io |-> (readOk /\ writeOk) ] >>
    /\ UNCHANGED << hostnames, cvars, kvars, evars, files, dirs, requestCount, downloaded,
                    last >>

RewriteInit ==
    \E o \in RewriteOrgs, h \in HostnameSettings, d \in Docs :
        /\ EngineStart(<< << "acme", "repo1", "npm", "p", "1.0.0", "p-1.0.0.tgz" >> >>,
                       TRUE, "")
        /\ StoreStart({}, {})
        /\ RenameStart(o)
        /\ PayloadStart(NoLabels, h, d)
        /\ IdleStart

RewriteNext ==
    \/ RenameGemspec
    \/ \E readOk, writeOk \in BOOLEAN : RenameMavenFile(readOk, writeOk)

SpecRewrite == RewriteInit /\ [][RewriteNext]_vars

(***************************************************************************)
(* retryOperation (api package) and the settings it reads.  Durations are  *)
(* in milliseconds.  The operation's results are "nil" or an error.        *)
(***************************************************************************)

OperationErrors == { "timeout", "http 502" }

\* the values --retry-max is given
RetryMaxFlags == 1..MaxAttempts

\* the values --retry-delay is given; "soon" is no duration
RetryDelayFlags == { "1s", "2s", "soon" }

\* the values of the environment variable MAX_RETRIES; 0 is "not set"
MaxRetriesEnv == 0..MaxAttempts

\* time.ParseDuration: the duration, or -1 for an error
ParseDuration(text) ==
    CASE text = "1s" -> 1000
      [] text = "2s" -> 2000
      [] OTHER -> -1

\* maxRetries as retryOperation computes it
EffectiveMaxRetries(c) == IF c.MAX_RETRIES <= 0 THEN 3 ELSE c.MAX_RETRIES

\* retryDelay as retryOperation computes it
EffectiveRetryDelay(c) ==
    IF ParseDuration(c.RETRY_DELAY) = -1 THEN 1000 ELSE ParseDuration(c.RETRY_DELAY)

\* a variant that waits retryDelay * attempt
WaitTimeLinear(retryDelay, attempt) == retryDelay * attempt

\* waitTime := retryDelay * time.Duration(1<<uint(attempt-1))
WaitTime(retryDelay, attempt) == retryDelay * 2^(attempt - 1)

\* retryOperation is called: it reads its settings and enters the loop
RetryEnter ==
    /\ retry.pc = "idle"
    /\ retry' = [ retry EXCEPT !.pc = "loop",
                               !.maxRetries = EffectiveMaxRetries(config),
                               !.retryDelay = EffectiveRetryDelay(config),
                               !.attempt = 1 ]
    /\ UNCHANGED << config, gvars, evars, cvars, tvars, files, dirs, requestCount,
                    downloaded, last >>

\* one pass of the loop: the operation returns outcome
RetryAttempt(outcome) ==
    /\ retry.pc = "loop"
    /\ retry.attempt <= retry.maxRetries
    /\ retry' =
         IF outcome = "nil"
         THEN [ retry EXCEPT !.pc = "returned", !.result = "nil",
                             !.calls = Append(@, outcome) ]
         ELSE IF retry.attempt < retry.maxRetries
         THEN [ retry EXCEPT !.calls = Append(@, outcome),
                             !.waits = Append(@, WaitTime(retry.retryDelay, retry.attempt)),
                             !.attempt = @ + 1 ]
         ELSE [ retry EXCEPT !.pc = "returned", !.result = outcome,
                             !.calls = Append(@, outcome), !.attempt = @ + 1 ]
    /\ UNCHANGED << config, gvars, evars, cvars, tvars, files, dirs, requestCount,
                    downloaded, last >>

RetryInit ==
    \E retryMax \in RetryMaxFlags, retryDelay \in RetryDelayFlags, env \in MaxRetriesEnv :
        /\ EngineStart(<< << "acme", "repo1", "npm", "p", "1.0.0", "p-1.0.0.tgz" >> >>,
                       TRUE, "")
        /\ StoreStart({}, {})
        /\ RenameStart(DefaultOrgs)
        /\ PayloadStart(NoLabels, DefaultHostnames, NoDoc)
        /\ RetryStart([ DefaultConfig EXCEPT !.RETRY_MAX = retryMax,
                                             !.RETRY_DELAY = retryDelay,
                                             !.MAX_RETRIES = env ])
        /\ GuardStart(0, 0, 0, 0, <<>>)
        /\ NoTransfers

RetryNext ==
    \/ RetryEnter
    \/ \E outcome \in OperationErrors \cup { "nil" } : RetryAttempt(outcome)

SpecRetry == RetryInit /\ [][RetryNext]_vars

(***************************************************************************)
(* The rate guard (utils.CanMakeRequest) called by parallel transfer        *)
(* tasks.  Time is in seconds.  gate.admitted counts the calls that         *)
(* returned true since the counter was last reset.                          *)
(***************************************************************************)

maxRequestsPerMinute == 5000

maxRequestsPerHour == 10000

\* the guard as earlier calls of the run left it: the time, the starts of
\* the two windows, and the requests admitted since the last reset
GuardScenarios ==
    { [ clock |-> 0, minuteStart |-> 0, hourStart |-> 0, count |-> 0,
        earlier |-> <<>> ],
      [ clock |-> 30, minuteStart |-> 0, hourStart |-> 0, count |-> 4999,
        earlier |-> << [ at |-> 0, n |-> 4999 ] >> ],
      [ clock |-> 59, minuteStart |-> 0, hourStart |-> 0, count |-> 5000,
        earlier |-> << [ at |-> 0, n |-> 5000 ] >> ],
      [ clock |-> 119, minuteStart |-> 60, hourStart |-> 0, count |-> 5000,
        earlier |-> << [ at |-> 0, n |-> 5000 ], [ at |-> 60, n |-> 5000 ] >> ],
      [ clock |-> 3599, minuteStart |-> 3570, hourStart |-> 0, count |-> 1,
        earlier |-> << [ at |-> 3570, n |-> 1 ] >> ],
      [ clock |-> 3599, minuteStart |-> 3570, hourStart |-> 0, count |-> 4999,
        earlier |-> << [ at |-> 3570, n |-> 4999 ] >> ] }

\* how far the clock advances between two steps
TickSizes == { 1, 60 }

\* a variant in which Lock never waits
CanLockAlways(holder) == TRUE

\* mu.Lock() proceeds when no task holds mu
CanLock(holder) == holder = 0

InProgress == Cardinality({ t \in Tasks : callers[t].pc # "idle" })

\* mu.Lock() in task t's call of CanMakeRequest
Lock(t) ==
    /\ callers[t].pc = "idle"
    /\ CanLock(mu)
    /\ mu' = t
    /\ callers' = [ callers EXCEPT ![t].pc = "locked" ]
    /\ UNCHANGED << clock, minuteStart, hourStart, gate, requestCount, rvars, evars,
                    cvars, tvars, files, dirs, downloaded, last >>

\* now := time.Now(), the two window resets and the threshold check; a call
\* over the threshold returns false and releases mu
Check(t) ==
    /\ callers[t].pc = "locked"
    /\ LET now == clock
           minuteOver == now - minuteStart >= 60
           hourOver == now - hourStart >= 3600
           count == IF minuteOver \/ hourOver THEN 0 ELSE requestCount
           admitted == IF minuteOver \/ hourOver THEN 0 ELSE gate.admitted
           refused == count >= maxRequestsPerMinute \/ count >= maxRequestsPerHour
       IN  /\ minuteStart' = IF minuteOver THEN now ELSE minuteStart
           /\ hourStart' = IF hourOver THEN now ELSE hourStart
           /\ requestCount' = count
           /\ IF refused
              THEN /\ callers' = [ callers EXCEPT ![t] = IdleCaller ]
                   /\ mu' = 0
                   /\ gate' = [ gate EXCEPT
                                  !.admitted = admitted,
                                  !.log = Append(@, [ task |-> t, now |-> now,
                                                      before |-> admitted,
                                                      ok |-> FALSE ]) ]
              ELSE /\ callers' = [ callers EXCEPT
                                     ![t] = [ pc |-> "admit", now |-> now,
                                              count |-> count,
                                              reset |-> minuteOver \/ hourOver ] ]
                   /\ mu' = mu
                   /\ gate' = [ gate EXCEPT !.admitted = admitted ]
    /\ UNCHANGED << clock, rvars, evars, cvars, tvars, files, dirs, downloaded, last >>

\* requestCount++, return true, and the deferred mu.Unlock()
Admit(t) ==
    /\ callers[t].pc = "admit"
    /\ requestCount' = callers[t].count + 1
    /\ mu' = 0
    /\ callers' = [ callers EXCEPT ![t] = IdleCaller ]
    /\ gate' = [ gate EXCEPT
                   !.admitted = @ + 1,
                   !.log = Append(@, [ task |-> t, now |-> callers[t].now,
                                       before |-> gate.admitted, ok |-> TRUE ]) ]
    /\ UNCHANGED << clock, minuteStart, hourStart, rvars, evars, cvars, tvars, files,
                    dirs, downloaded, last >>

\* time passes
Tick(d) ==
    /\ gate.ticks < MaxTicks
    /\ clock' = clock + d
    /\ gate' = [ gate EXCEPT !.ticks = @ + 1 ]
    /\ UNCHANGED << minuteStart, hourStart, mu, callers, transfers, requestCount, rvars,
                    evars, cvars, tvars, files, dirs, downloaded, last >>

\* the calls of CanMakeRequest by tasks that do nothing else
GuardLock(t) ==
    /\ Len(gate.log) + InProgress < MaxCalls
    /\ Lock(t)
    /\ UNCHANGED transfers

GuardCheck(t) == Check(t) /\ UNCHANGED transfers

GuardAdmit(t) == Admit(t) /\ UNCHANGED transfers

GuardInit ==
    \E sc \in GuardScenarios :
        /\ EngineStart(<< << "acme", "repo1", "npm", "p", "1.0.0", "p-1.0.0.tgz" >> >>,
                       TRUE, "")
        /\ files = << >>
        /\ dirs = {}
        /\ downloaded = {}
        /\ last = NoCall
        /\ requestCount = sc.count
        /\ RenameStart(DefaultOrgs)
        /\ PayloadStart(NoLabels, DefaultHostnames, NoDoc)
        /\ RetryStart(DefaultConfig)
        /\ GuardStart(sc.clock, sc.minuteStart, sc.hourStart, sc.count, sc.earlier)
        /\ NoTransfers

GuardNext ==
    \/ \E t \in Tasks : GuardLock(t)
    \/ \E t \in Tasks : GuardCheck(t)
    \/ \E t \in Tasks : GuardAdmit(t)
    \/ \E d \in TickSizes : Tick(d)

SpecGuard == GuardInit /\ [][GuardNext]_vars

(***************************************************************************)
(* utils.DownloadFile and utils.UploadFile: the loop around CanMakeRequest  *)
(* and the one request.  Each task makes one call.                         *)
(***************************************************************************)

FileOps == { "DownloadFile", "UploadFile" }

\* what client.Do gives: a response with its status, or an error
RequestOutcomes == { "200", "500", "transport_error" }

\* variant of OnRefusal that returns an error
OnRefusalGiveUp(tr, now) == [ tr EXCEPT !.pc = "returned", !.failed = TRUE ]

\* if !CanMakeRequest() { time.Sleep(time.Minute); continue }
OnRefusal(tr, now) == [ tr EXCEPT !.pc = "sleep", !.wake = now + 60 ]

\* the loop of task t's transfer calls CanMakeRequest
TransferAsk(t) ==
    /\ transfers[t].pc = "loop"
    /\ Lock(t)
    /\ transfers' = [ transfers EXCEPT ![t].pc = "ask" ]

\* CanMakeRequest decides; on false the transfer goes to sleep
TransferCheck(t) ==
    /\ transfers[t].pc = "ask"
    /\ Check(t)
    /\ transfers' = IF callers'[t].pc = "idle"
                    THEN [ transfers EXCEPT ![t] = OnRefusal(@, clock) ]
                    ELSE transfers

\* CanMakeRequest returns true
TransferAdmit(t) ==
    /\ transfers[t].pc = "ask"
    /\ Admit(t)
    /\ transfers' = [ transfers EXCEPT ![t].pc = "send" ]

\* time.Sleep(time.Minute) returns: a minute has passed, the loop continues
WakeUp(t) ==
    /\ transfers[t].pc = "sleep"
    /\ clock' = IF clock < transfers[t].wake THEN transfers[t].wake ELSE clock
    /\ transfers' = [ transfers EXCEPT ![t].pc = "loop" ]
    /\ UNCHANGED << minuteStart, hourStart, mu, callers, gate, requestCount, rvars,
                    evars, cvars, tvars, files, dirs, downloaded, last >>

\* http.NewRequest and client.Do: the request is sent and the call returns
SendRequest(t, outcome) ==
    /\ transfers[t].pc = "send"
    /\ transfers' = [ transfers EXCEPT
                        ![t].pc = "returned",
                        ![t].sent = @ + 1,
                        ![t].failed = IF transfers[t].op = "DownloadFile"
                                      THEN outcome # "200"
                                      ELSE outcome = "transport_error" ]
    /\ UNCHANGED << clock, minuteStart, hourStart, mu, callers, gate, requestCount,
                    rvars, evars, cvars, tvars, files, dirs, downloaded, last >>

PauseInit ==
    \E sc \in GuardScenarios, ops \in [ Tasks -> FileOps ] :
        /\ EngineStart(<< << "acme", "repo1", "npm", "p", "1.0.0", "p-1.0.0.tgz" >> >>,
                       TRUE, "")
        /\ files = << >>
        /\ dirs = {}
        /\ downloaded = {}
        /\ last = NoCall
        /\ requestCount = sc.count
        /\ RenameStart(DefaultOrgs)
        /\ PayloadStart(NoLabels, DefaultHostnames, NoDoc)
        /\ RetryStart(DefaultConfig)
        /\ GuardStart(sc.clock, sc.minuteStart, sc.hourStart, sc.count, sc.earlier)
        /\ TransferStart(ops)

PauseNext ==
    \/ \E t \in Tasks : TransferAsk(t)
    \/ \E t \in Tasks : TransferCheck(t)
    \/ \E t \in Tasks : TransferAdmit(t)
    \/ \E t \in Tasks : WakeUp(t)
    \/ \E t \in Tasks, outcome \in RequestOutcomes : SendRequest(t, outcome)

\* a task that can go on does; a task waiting for mu gets it when it keeps
\* coming free; a sleep ends (time advances)
PauseFairness ==
    \A t \in Tasks :
        /\ SF_vars(TransferAsk(t))
        /\ WF_vars(TransferCheck(t))
        /\ WF_vars(TransferAdmit(t))
        /\ WF_vars(WakeUp(t))
        /\ WF_vars(\E outcome \in RequestOutcomes : SendRequest(t, outcome))

SpecPause == PauseInit /\ [][PauseNext]_vars /\ PauseFairness

\* ------------------------------------------------------------------------
\* Properties
\* ------------------------------------------------------------------------
\* the versions of group g as the catalog enumerates them
Versions(g) == GetFlatListOfColumn(packages, g, 4)

\* the versions the callback has been invoked with for group g, in order
CalledVersions(g) ==
    LET own == SelectSeq(calls, LAMBDA c : c[1] = g)
    IN  [ k \in 1..Len(own) |-> own[k][2] ]

IsPrefix(s, t) == Len(s) <= Len(t) /\ \A k \in 1..Len(s) : s[k] = t[k]

\* the entries of vlog / plog for group g
VersionsCounted(g) == SelectSeq(vlog, LAMBDA e : e.grp = g)

PackagesCounted(g) == SelectSeq(plog, LAMBDA e : e.grp = g)

\* group g was settled by the pre-check (api.PackageExists)
PreChecked(g) == \E k \in 1..Len(plog) : plog[k].grp = g /\ plog[k].by = "precheck"

\* the three-level rule: Failed if any is Failed, else Skipped if any is
\* Skipped, else Success
Rule(anyFailed, anySkipped) ==
    IF anyFailed THEN Failed ELSE IF anySkipped THEN Skipped ELSE Success

RECURSIVE SumTally(_, _)
SumTally(log, field) ==
    IF log = <<>> THEN 0 ELSE Head(log).tally[field] + SumTally(Tail(log), field)

Running == { k \in DOMAIN workers : workers[k] = "running" }

\* the steps of an Upload past the check of the package directory
UploadWork ==
    { "getUrl", "GetUploadUrl", "Rename", "UploadFile", "WriteNpmrc", "Extract",
      "Publish", "Unpack", "Build", "Push", "ImagePush" }

\* C1: a provider Download that finds the artifact at its output path returns
\* Skipped with no error, does not resolve the download URL, issues no
\* network request and leaves the stored file as it is
C1_DownloadSkipsExisting ==
    [][ (last'.op = "Download" /\ FileExists(outputPath(last'.artifact)))
            => /\ last'.state = Skipped
               /\ ~last'.err
               /\ Range(last'.steps) \cap {"MkdirAll", "getUrl", "download"} = {}
               /\ requestCount' = requestCount
               /\ files' = files ]_vars

\* C1, witness: a second Download of an artifact that a first Download fetched
C1_SecondDownloadSkipped ==
    /\ last.op = "Download"
    /\ last.existed
    /\ last.artifact \in downloaded
    /\ last.state = Skipped

\* C2: in a run without errors (and without a package type filter), every
\* unique group, the first one included, is either settled by the pre-check
\* or has the callback invoked for every version, and the three package
\* counters sum to the number of unique groups
C2_EveryGroupProcessed ==
    (pc = "done" /\ ~retErr /\ desiredPackageType = "")
        => /\ \A i \in 1..Len(pkgs) :
                \/ PreChecked(pkgs[i])
                \/ Range(CalledVersions(pkgs[i])) = Range(Versions(pkgs[i]))
           /\ report.PackageSuccess + report.PackagesSkipped + report.PackagesFailed
                = Len(pkgs)

\* C3: a processed version is counted Failed if one of its file transfers
\* failed (returned an error), otherwise Skipped if one of its files was
\* Skipped, otherwise Success
C3_VersionRollUp ==
    \A k \in 1..Len(vlog) :
        vlog[k].counted = Rule(vlog[k].tally.failed > 0, vlog[k].tally.skipped > 0)

\* C4: once all versions of a group have been processed, the group is counted
\* exactly once, as Failed if one of its versions was counted Failed, otherwise
\* Skipped if one was counted Skipped, otherwise Success, whatever the versions
\* of other groups were counted as
C4_PackageRollUp ==
    pc = "done"
        => \A i \in 1..Len(pkgs) :
             LET g  == pkgs[i]
                 vs == VersionsCounted(g)
                 ps == PackagesCounted(g)
             IN  (Len(vs) > 0 /\ Len(vs) = Len(Versions(g)))
                    => /\ Len(ps) = 1
                       /\ ps[1].counted =
                            Rule(\E k \in 1..Len(vs) : vs[k].counted = Failed,
                                 \E k \in 1..Len(vs) : vs[k].counted = Skipped)

\* C5: after a run FilesFailed equals the number of file transfers that
\* returned an error, and the three file counters sum to the number of file
\* transfers attempted
C5_FailedTransfersCounted ==
    pc = "done"
        => /\ report.FilesFailed = SumTally(vlog, "failed")
           /\ report.FileSuccess + report.FilesSkipped + report.FilesFailed
                = SumTally(vlog, "success") + SumTally(vlog, "skipped")
                    + SumTally(vlog, "failed")

\* C6: an Upload that the registry answers with HTTP 409 returns Skipped
C6_ConflictIsSkipped ==
    (last.op = "Upload" /\ last.status = StatusConflict) => last.state = Skipped

\* C7: a provider Upload that does not find the package directory returns
\* Skipped with no error, and neither resolves the upload URL nor renames nor
\* transfers or publishes anything
C7_UploadSkipsMissingDir ==
    [][ (last'.op = "Upload" /\ ~FileExists(packageDir(last'.artifact)))
            => /\ last'.state = Skipped
               /\ ~last'.err
               /\ Range(last'.steps) \cap UploadWork = {}
               /\ requestCount' = requestCount
               /\ files' = files ]_vars

\* C7, witness: an Upload was called without its package directory
C7_UploadWithoutDir ==
    /\ last.op = "Upload"
    /\ ~last.existed
    /\ last.state = Skipped
    /\ last.steps = <<"FileExists">>

C9_ReverseOfFirstEncounter ==
    (pc = "done" /\ ~retErr /\ desiredPackageType = "")
        => \A i \in 1..Len(pkgs) :
              \/ PreChecked(pkgs[i])
              \/ CalledVersions(pkgs[i]) = Reverse(Versions(pkgs[i]))

\* C10: during a Download callback at most 5 provider.Download calls are in
\* progress, however many filenames the version has
C10_AtMostFiveDownloads ==
    (pc = "callback" /\ Kind = "Download") => Cardinality(Running) <= 5

\* C10, witness: five downloads in progress while a sixth filename waits
C10_FiveRunningOneWaiting ==
    /\ pc = "callback"
    /\ Kind = "Download"
    /\ Cardinality(Running) = 5
    /\ \E k \in DOMAIN workers : workers[k] = "waiting"

\* C11: outside a Download callback no file transfer is in progress or
\* pending: every goroutine of a version has finished and released its slot
\* before the callback returns, so transfers of two versions never overlap
C11_TransfersJoined ==
    (pc # "callback" /\ Kind = "Download")
        => /\ \A k \in DOMAIN workers : workers[k] = "done"
           /\ sem = 0

\* C11, witness: a Download callback for a version of several files has
\* returned and the engine is between two versions
C11_ReturnedFromManyFiles ==
    /\ pc = "version"
    /\ Kind = "Download"
    /\ Len(vlog) >= 1
    /\ vlog[Len(vlog)].files >= 2

\* C12: a Download callback calls provider.Download once for every filename
\* of the version whatever the other files do; it returns an error exactly
\* when a file failed, and the error has one entry per failed file
C12_EveryFileTriedErrorsCollected ==
    ~skipIfExists
        => \A k \in 1..Len(vlog) :
             LET e == vlog[k]
             IN  /\ e.tally.success + e.tally.skipped + e.tally.failed = e.files
                 /\ e.err <=> e.tally.failed > 0
                 /\ e.errs = e.tally.failed

\* C12, witness: a version of which two files failed and one succeeded
C12_TwoFailedOneFetched ==
    /\ ~skipIfExists
    /\ \E k \in 1..Len(vlog) :
          /\ vlog[k].tally.failed >= 2
          /\ vlog[k].tally.success >= 1
          /\ vlog[k].errs = vlog[k].tally.failed

\* C13: when a Download callback has returned, the three file counters have
\* together gained exactly the number of goroutines that called IncFiles
C13_NoLostIncrement ==
    ~skipIfExists
        => \A k \in 1..Len(vlog) :
             vlog[k].gained = vlog[k].tally.success + vlog[k].tally.skipped

\* ------------------------------------------------------------------------
\* Error handling and the Provider held by the engine
\* ------------------------------------------------------------------------
\* group number i passes the package type filter
Wanted(i) == desiredPackageType = "" \/ pkgs[i][3] = desiredPackageType

\* the groups that have reached the Provider check of ProcessPackages
Reached(i) ==
    /\ i >= 2
    /\ Wanted(i)
    /\ \/ i < gi
       \/ i = gi /\ (pc \in {"version", "callback"} \/ (pc = "done" /\ retErr))

\* the run has ended although versions or groups were still to be processed
WorkLeft ==
    \/ vi < Len(order)
    \/ \E i \in (gi + 1)..Len(pkgs) : Wanted(i)

\* C14: a failed file transfer does not end the run: when the run is over and
\* the last callback returned an error, no version of the group and no later
\* group of the catalog was left unprocessed.
C14_FailedTransferDoesNotEndRun ==
    (pc = "done" /\ Len(vlog) > 0 /\ vlog[Len(vlog)].err) => ~WorkLeft

\* C15: a failed Connect abandons only the work of its own package type: when
\* the run is over and the last Provider could not connect, no group of
\* another package type was left unprocessed behind it.
C15_ConnectFailureKeepsOtherTypes ==
    (pc = "done" /\ Len(connects) > 0 /\ ~connects[Len(connects)].connected)
        => \A i \in (gi + 1)..Len(pkgs) :
               Wanted(i) => pkgs[i][3] = connects[Len(connects)].type

RECURSIVE Collapse(_)
\* a sequence with every run of equal neighbours reduced to one element
Collapse(s) ==
    IF Len(s) <= 1 THEN s
    ELSE IF s[1] = s[2] THEN Collapse(Tail(s))
    ELSE <<s[1]>> \o Collapse(Tail(s))

\* the package types of the groups that reached the Provider check, in order
ReachedTypes ==
    LET sel == SelectSeq([ i \in 1..Len(pkgs) |-> i ], Reached)
    IN  [ k \in 1..Len(sel) |-> pkgs[sel[k]][3] ]

GroupIndex(g) == CHOOSE i \in 1..Len(pkgs) : pkgs[i] = g

PreCheckFoundPackage ==
    /\ Len(plog') = Len(plog) + 1
    /\ plog'[Len(plog')].by = "precheck"
    /\ plog'[Len(plog')].counted = Skipped

\* the groups the pre-check has found at the destination so far
FoundAtDestination ==
    { plog[k].grp : k \in { j \in 1..Len(plog) : plog[j].by = "precheck"
                                                  /\ plog[j].counted = Skipped } }

C18_UploadReadsWhereDownloadWrote ==
    \A a \in downloaded :
        /\ Dir(outputPath(a)) = packageDir(a)
        /\ FileExists(packageDir(a))

\* ------------------------------------------------------------------------
\* The cache of recreated container images
\* ------------------------------------------------------------------------
\* the Rename calls that recreated and committed the image with identity id
Recreations(id) ==
    { k \in 1..Len(renames) : /\ renames[k].id = id
                              /\ ~renames[k].err
                              /\ "ContainerCommit" \in Range(renames[k].steps) }

\* C19: with different source and target organizations, an image identity is
\* recreated (ContainerCreate, ContainerCommit) once per provider instance:
\* after the Rename that committed it, every Rename of a tag of the same
\* identity only re-tags the target reference committed then, with no
\* ContainerCreate and no ContainerCommit.
C19_RecreatedOncePerIdentity ==
    ~CheckOrganizationsMatch(orgs) =>
        \A j, k \in 1..Len(renames) :
            (j < k /\ j \in Recreations(renames[k].id)) =>
                /\ renames[k].steps = <<"ImageInspect", "ImageTag">>
                /\ renames[k].tagFrom = renames[j].targetRef
                /\ k \notin Recreations(renames[k].id)

\* two different tags of one image were renamed without error by one
\* provider: the first was recreated, the second re-tagged
C19_SecondTagRetagged ==
    /\ ~CheckOrganizationsMatch(orgs)
    /\ \E j, k \in 1..Len(renames) :
          /\ j < k
          /\ renames[j].filename # renames[k].filename
          /\ j \in Recreations(renames[k].id)
          /\ ~renames[k].err
          /\ renames[k].steps = <<"ImageInspect", "ImageTag">>

\* ------------------------------------------------------------------------
\* Rename before the transfer
\* ------------------------------------------------------------------------
\* the steps that transfer or publish the artifact to the destination
TransferSteps == {"UploadFile", "Publish", "Push", "ImagePush"}

\* C20: every Upload that reaches its transfer or publish step has invoked the
\* provider's Rename earlier in the same Upload.
C20_RenameBeforeTransfer ==
    last.op = "Upload" =>
        \A k \in 1..Len(last.steps) :
            last.steps[k] \in TransferSteps =>
                \E j \in 1..(k - 1) : last.steps[j] = "Rename"

\* ------------------------------------------------------------------------
\* The rewriting of organization references
\* ------------------------------------------------------------------------
RECURSIVE Lines(_)
\* the lines of a content, without their line ends
Lines(content) ==
    IF content = <<>> THEN <<>>
    ELSE LET n == CHOOSE k \in 1..Len(content) :
                      content[k] = "\n" /\ \A j \in 1..(k - 1) : content[j] # "\n"
         IN  << SubSeq(content, 1, n - 1) >> \o Lines(SubSeq(content, n + 1, Len(content)))

\* the gemspec line that should stand in place of a line after Rename
GemspecLineRenamed(line) ==
    IF line = GemRegistryLine("old-org") THEN GemRegistryLine("new-org")
    ELSE IF line = GithubLine("old-org") THEN GithubLine("new-org")
    ELSE line

\* C21: for a gemspec with https://rubygems.pkg.github.com/old-org and
\* https://github.com/old-org, source old-org and target new-org, Rename leaves
\* both with new-org in place of old-org and every other part of the gemspec
\* as it was.
C21_OnlyTheTwoUrlsRewritten ==
    (/\ docBefore # <<>>
     /\ doc.name = "g.gemspec"
     /\ orgs = [ source |-> "old-org", target |-> "new-org" ]
     /\ {GemRegistryLine("old-org"), GithubLine("old-org")}
            \subseteq Range(Lines(docBefore[1].content)))
        => LET before == Lines(docBefore[1].content)
           IN  Lines(doc.content) = [ k \in 1..Len(before) |-> GemspecLineRenamed(before[k]) ]

\* the Rename calls that committed a recreated image
Committed == { k \in 1..Len(renames) : renames[k].committed # <<>> }

\* C22: the labels of the recreated image are the labels of the source image
\* with the organization segment of org.opencontainers.image.source replaced
\* by the target organization, https://github.com/<target>/repo-name, for
\* every source organization name; every other label and every other part of
\* that label is unchanged.
C22_OrganizationSegmentReplaced ==
    \A k \in Committed :
        LET labels == renames[k].committed[1]
        IN  /\ \A l \in DOMAIN imageLabels \ {SourceLabel} :
                  l \in DOMAIN labels /\ labels[l] = imageLabels[l]
            /\ SourceLabel \in DOMAIN imageLabels
                  => labels[SourceLabel] = SourceUrlLabel(orgs.target)

\* the pieces of a file name that decide whether it is a POM
PomNames == {"pom.xml", "q-1.0.0.pom"}

\* the line of a POM that should stand in place of a line after Rename
PomLineRenamed(line, o) ==
    IF line = << "<url>" >> \o MavenUrl(o.source) \o << "</url>" >>
    THEN << "<url>" >> \o MavenUrl(o.target) \o << "</url>" >>
    ELSE line

C24_SingleNpmPackageReported ==
    (/\ pc = "done"
     /\ ~retErr
     /\ skipIfExists
     /\ desiredPackageType = ""
     /\ packages = << << "acme", "repo1", "npm", "p", "1.0.0", "p-1.0.0.tgz" >> >>
     /\ \A g \in Range(pkgs) : ~PreChecked(g)
     /\ \A k \in 1..Len(vlog) : ~vlog[k].err)
        => /\ report.FileSuccess = 1
           /\ report.VersionSuccess = 1
           /\ report.PackageSuccess = 1
           /\ report.PackageSuccessByType["npm"] = 1

\* the version counters of the Report, added up
VersionsTotal(r) == r.VersionSuccess + r.VersionsSkipped + r.VersionsFailed

\* C25: exactly one IncVersions call is made for every processed version, also
\* when the callback returns an error: outside a callback the version
\* counters add up to the number of callbacks invoked, and inside one to the
\* number of callbacks that have returned.
C25_OneIncVersionsPerCallback ==
    /\ VersionsTotal(report) = IF pc = "callback" THEN Len(calls) - 1 ELSE Len(calls)
    /\ Len(vlog) = VersionsTotal(report)

\* the run ended on the error of its second callback or a later one
C25_CountedDespiteError ==
    /\ pc = "done"
    /\ Len(calls) >= 2
    /\ vlog[Len(vlog)].err
    /\ ~vlog[1].err

\* ------------------------------------------------------------------------
\* The life of one Download or Upload call
\* ------------------------------------------------------------------------
\* how many steps of a call lie in the set S
StepsIn(steps, S) == Cardinality({ k \in 1..Len(steps) : steps[k] \in S })

\* C26: a Download or Upload call makes the existence check first; it then
\* either returns Skipped without attempting the transfer, or attempts the
\* transfer at most once and returns Success or Failed (Failed exactly when it
\* returns an error); no call sends more than one request, a skipped call
\* sends none.
C26_OneAttemptPerCall ==
    /\ [](last.op \in {"Download", "Upload"} =>
             /\ last.steps[1] = "FileExists"
             /\ IF last.state = Skipped
                THEN /\ last.steps = <<"FileExists">>
                     /\ ~last.err
                     /\ last.existed = (last.op = "Download")
                ELSE /\ last.existed = (last.op = "Upload")
                     /\ StepsIn(last.steps, TransferSteps \cup {"download"}) <= 1
                     /\ last.state \in {Success, Failed}
                     /\ (last.state = Failed) = last.err)
    /\ [][ /\ requestCount' \in {requestCount, requestCount + 1}
           /\ last'.state = Skipped => requestCount' = requestCount ]_vars

\* a Download that failed after sending its one request
C26_FailedAfterOneRequest ==
    /\ last.op = "Download"
    /\ last.state = Failed
    /\ "download" \in Range(last.steps)
    /\ requestCount = 1

\* C27: retryOperation calls the operation at most maxRetries times; a
\* successful attempt is the last call and makes it return nil; after exactly
\* maxRetries failed attempts it returns the error of the last one; the wait
\* after failed attempt k (before attempt k+1) is retryDelay * 2^(k-1), and
\* no wait follows the final attempt.
C27_RetryContract ==
    retry.pc # "idle" =>
        LET n == Len(retry.calls)
        IN  /\ n <= retry.maxRetries
            /\ \A k \in 1..n :
                   retry.calls[k] = "nil" =>
                       k = n /\ retry.pc = "returned" /\ retry.result = "nil"
            /\ retry.pc = "loop" => Len(retry.waits) = n /\ retry.result = "none"
            /\ retry.pc = "returned" =>
                   /\ n >= 1
                   /\ retry.result = retry.calls[n]
                   /\ Len(retry.waits) = n - 1
                   /\ retry.result # "nil" => n = retry.maxRetries
            /\ \A k \in 1..Len(retry.waits) :
                   retry.waits[k] = retry.retryDelay * 2^(k - 1)

\* four attempts failed: three doubling waits, then the last error returned
C27_GaveUpAfterFourAttempts ==
    /\ retry.pc = "returned"
    /\ retry.calls = << "timeout", "timeout", "timeout", "http 502" >>
    /\ retry.result = "http 502"
    /\ retry.waits = << 2000, 4000, 8000 >>

\* C28: the value given with --retry-max is the number of attempts
\* retryOperation makes before giving up, and the value given with
\* --retry-delay (when it is a duration) is its base delay.
C28_FlagsGovernRetry ==
    retry.pc # "idle" =>
        /\ retry.maxRetries = config.RETRY_MAX
        /\ retry.pc = "returned" /\ retry.result # "nil" =>
               Len(retry.calls) = config.RETRY_MAX
        /\ ParseDuration(config.RETRY_DELAY) # -1 =>
               retry.retryDelay = ParseDuration(config.RETRY_DELAY)

\* C29: with any number of tasks calling CanMakeRequest in any interleaving,
\* the counter equals the number of calls that returned true since it was
\* last reset, it never exceeds maxRequestsPerMinute, and a call returns
\* false exactly when that number had reached the threshold.
C29_CounterMatchesAdmitted ==
    /\ requestCount = gate.admitted
    /\ requestCount <= maxRequestsPerMinute
    /\ \A k \in 1..Len(gate.log) :
           gate.log[k].ok = (gate.log[k].before < maxRequestsPerMinute)

\* two tasks asked in the same window: one took the last place, the other
\* was refused
C29_RefusedAtThreshold ==
    /\ requestCount = maxRequestsPerMinute
    /\ \E i, j \in 1..Len(gate.log) :
           /\ gate.log[i].task # gate.log[j].task
           /\ gate.log[i].ok
           /\ ~gate.log[j].ok
           /\ gate.log[j].before = maxRequestsPerMinute

\* C30: during an UploadBatch call at most 5 uploads are in progress; every
\* filename of the version is uploaded exactly once (the uploads that have
\* returned are those of the finished goroutines, and at the return there is
\* one per filename); UploadBatch has returned only when every goroutine has
\* finished and released its slot.
C30_BatchBoundedCompleteJoined ==
    /\ (pc = "callback" /\ Kind = "UploadBatch") =>
           /\ Cardinality(Running) <= 5
           /\ tally.success + tally.skipped + tally.failed =
                  Cardinality({ k \in DOMAIN workers : workers[k] = "done" })
    /\ (pc # "callback" /\ Kind = "UploadBatch") =>
           /\ \A k \in DOMAIN workers : workers[k] = "done"
           /\ sem = 0
    /\ skipIfExists =>
           \A k \in 1..Len(vlog) :
               vlog[k].grp[3] = "maven" =>
                   vlog[k].tally.success + vlog[k].tally.skipped + vlog[k].tally.failed
                       = vlog[k].files

\* five uploads of an UploadBatch call in progress, one upload has returned
\* and another filename still waits for a slot
C30_FiveUploadsOneWaiting ==
    /\ pc = "callback"
    /\ Kind = "UploadBatch"
    /\ Cardinality(Running) = 5
    /\ \E k \in DOMAIN workers : workers[k] = "waiting"

\* C39: a Rename that returns an error (inspection, ContainerCreate,
\* ContainerCommit or the re-tag failed) leaves recreatedShas as it was; the
\* cache changes only by gaining the entry of the image a Rename has just
\* committed; every cached value is the target reference of a Rename of this
\* provider instance that committed that image without error.
C39_CachedOnlyAfterCommit ==
    /\ [](\A id \in DOMAIN recreatedShas :
              \E k \in Recreations(id) : renames[k].targetRef = recreatedShas[id])
    /\ [][ Len(renames') = Len(renames) + 1 =>
              LET r == renames'[Len(renames')]
              IN  /\ r.err => recreatedShas' = recreatedShas
                  /\ recreatedShas' # recreatedShas =>
                         /\ ~r.err
                         /\ "ContainerCommit" \in Range(r.steps)
                         /\ recreatedShas' = (r.id :> r.targetRef) @@ recreatedShas
                         /\ r.id \notin DOMAIN recreatedShas ]_vars

\* one image is cached; the commit of another image failed and that image
\* has no entry
C39_FailedCommitNotCached ==
    /\ recreatedShas # << >>
    /\ \E k \in 1..Len(renames) :
          /\ renames[k].err
          /\ "ContainerCommit" \in Range(renames[k].steps)
          /\ renames[k].id \notin DOMAIN recreatedShas

\* C36: in the slice of an UploadBatch call, the entry of a file whose Upload
\* has returned an error (the goroutine sent it to errChan; Upload returns
\* Failed with every error) is Failed.
C36_FailedUploadHasFailedEntry ==
    (pc = "callback" /\ Kind = "UploadBatch") =>
        \A k \in DOMAIN workers :
            (workers[k] = "done" /\ filenames[k] \in errChan) => results[k] = Failed

\* C37: a Download callback that has been entered returns, whatever the
\* number of filenames and whatever the downloads return; when it has
\* returned every goroutine has had its slot of the semaphore and given it
\* back; the errors sent never exceed the capacity of errChan, so no send
\* blocks.
C37_DownloadCallbackReturns ==
    /\ (pc = "callback") ~> (pc # "callback")
    /\ [](pc # "callback" =>
              /\ \A k \in DOMAIN workers : workers[k] = "done"
              /\ tally.success + tally.skipped + tally.failed = Len(workers)
              /\ sem = 0)
    /\ [](Cardinality(errChan) <= Len(filenames) /\ sem <= SemCapacity)

\* the callback has returned for a version of more than five files of which
\* some failed and some were fetched
C37_ReturnedFromMixedSix ==
    /\ pc = "done"
    /\ ~skipIfExists
    /\ Len(vlog) = 1
    /\ vlog[1].files > 5
    /\ vlog[1].tally.failed >= 1
    /\ vlog[1].tally.success >= 1

\* the calls that returned true at or after time from: those of the run and
\* those made before it
RECURSIVE AdmittedEarlier(_, _)
AdmittedEarlier(earlier, from) ==
    IF earlier = <<>> THEN 0
    ELSE (IF Head(earlier).at >= from THEN Head(earlier).n ELSE 0)
             + AdmittedEarlier(Tail(earlier), from)

AdmittedSince(from) ==
    AdmittedEarlier(gate.earlier, from)
        + Cardinality({ k \in 1..Len(gate.log) :
                            gate.log[k].ok /\ gate.log[k].now >= from })

\* C34: the calls of CanMakeRequest that returned true within the last hour
\* never number more than maxRequestsPerHour.
C34_HourlyLimitKept ==
    AdmittedSince(clock - 3599) <= maxRequestsPerHour

\* C38: a DownloadFile or UploadFile call that the rate guard refuses has
\* neither returned nor sent a request while it pauses; it asks again and,
\* the pause over, is admitted and sends one request; no call sends more
\* than one request, and none is sent without an admission.
C38_RefusedTransferPausesThenSends ==
    /\ [](\A t \in Tasks :
              /\ transfers[t].sent <= 1
              /\ transfers[t].pc = "sleep" =>
                     transfers[t].sent = 0 /\ ~transfers[t].failed
              /\ transfers[t].sent = 1 =>
                     \E k \in 1..Len(gate.log) : gate.log[k].task = t /\ gate.log[k].ok
              /\ (\E k \in 1..Len(gate.log) : gate.log[k].task = t /\ ~gate.log[k].ok)
                     => (transfers[t].pc = "returned" => transfers[t].sent = 1))
    /\ \A t \in Tasks :
           (transfers[t].pc = "sleep")
               ~> (transfers[t].pc = "returned" /\ transfers[t].sent = 1)

\* a transfer that was refused at the threshold has sent its request after
\* the pause
C38_SentAfterPause ==
    \E t \in Tasks :
        /\ transfers[t].pc = "returned"
        /\ transfers[t].sent = 1
        /\ \E j, k \in 1..Len(gate.log) :
               /\ j < k
               /\ gate.log[j].task = t /\ ~gate.log[j].ok
               /\ gate.log[k].task = t /\ gate.log[k].ok
               /\ gate.log[k].now >= gate.log[j].now + 60

\* C35: after a Download that returned Failed nothing exists at the
\* artifact's local path, so the next Download of the artifact does not
\* return Skipped.
C35_FailedDownloadLeavesNoFile ==
    (last.op = "Download" /\ last.state = Failed)
        => /\ ~FileExists(outputPath(last.artifact))
           /\ downloadPackage(FileExists(outputPath(last.artifact)), TRUE, "ok").state
                  # Skipped

\* C32: a Connect of the container provider has failed when the source
\* organization or the source token is empty, and when a registry login it
\* made did not report success; the provider holds an auth token for a
\* registry only if a login to that registry succeeded; no callback has been
\* invoked with a provider whose Connect failed.
C32_ConnectFailsWithoutLogin ==
    \A k \in 1..Len(connects) :
        LET c == connects[k]
            ok(addr) == \E i \in 1..Len(c.logins) :
                            /\ c.logins[i].addr = addr
                            /\ c.logins[i].answer = "Login Succeeded"
        IN  (c.type = "container" /\ c.created) =>
                /\ (orgs.source = "" \/ config.GHMPKG_SOURCE_TOKEN = "") => ~c.connected
                /\ (\E i \in 1..Len(c.logins) : c.logins[i].answer # "Login Succeeded")
                       => ~c.connected
                /\ c.sourceAuthStr # "" => ok("source")
                /\ c.targetAuthStr # "" => ok("target")
                /\ c.connected => ok("source")
                /\ ~c.connected => \A j \in 1..Len(calls) : calls[j][3] # k

\* the login to the source registry succeeded and its token is stored, the
\* login to the target registry was rejected: Connect failed and the run
\* ended without a callback
C32_TargetLoginRejected ==
    /\ pc = "done"
    /\ retErr
    /\ calls = <<>>
    /\ \E k \in 1..Len(connects) :
          /\ connects[k].type = "container"
          /\ ~connects[k].connected
          /\ connects[k].sourceAuthStr # ""
          /\ connects[k].targetAuthStr = ""
          /\ Len(connects[k].logins) = 2
          /\ connects[k].logins[2].answer = "denied"

\* C33: Export has created neither the directory nor the CSV file of a
\* package type for which the source organization has no package.
C33_NothingForEmptyTypes ==
    \A k \in 1..Len(SUPPORTED_PACKAGE_TYPES) :
        LET packageType == SUPPORTED_PACKAGE_TYPES[k]
        IN  RowsOfType(packages, packageType) = <<>> =>
                /\ ExportDir(packageType) \notin dirs
                /\ ExportCsv(packageType) \notin DOMAIN files

\* C31: two calls of the same URL function whose owners and package names
\* differ only in letter case, with the same tag, return the same URL.
C31_UrlIgnoresCase ==
    \A i, j \in 1..Len(urls) :
        ( /\ urls[i].fn = urls[j].fn
          /\ ToLower(urls[i].owner) = ToLower(urls[j].owner)
          /\ ToLower(urls[i].packageName) = ToLower(urls[j].packageName)
          /\ urls[i].tag = urls[j].tag )
            => urls[i].url = urls[j].url


====
